---- MODULE Spec2Model ----
(***************************************************************************)
(* Model of crates/but-tools/src/workspace.rs: the workspace tools          *)
(* (commit, create_branch, amend, get_project_status, create_blank_commit,  *)
(* move_file_changes, get_commit_details), the functions they call and the  *)
(* collaborators those functions drive.                                     *)
(*                                                                          *)
(* A tool call is one action.  Every collaborator that returns a Result is  *)
(* given an outcome drawn by the action (x.fail names the fallible step     *)
(* that fails in this call, if it is reached); what a call did is kept, in  *)
(* order, in last.events.                                                   *)
(***************************************************************************)
EXTENDS Integers, Sequences, FiniteSets, TLC

VARIABLES
    vb_state,       \* VirtualBranchesHandle: the stacks, their branches and commit ids
    commits,        \* object store: commit id -> [message, files]
    worktree,       \* worktree_changes(): paths with a pending change, in path order
    next_oid,       \* next unused commit id
    next_stack_id,  \* next unused stack id
    last,           \* the last tool call: what was asked, what it did, what it returned
    exclusive_worktree_access,  \* the caller holding the project's guard (0: nobody)
    calls           \* the calls in progress, one per concurrent caller, and where each is

vars == <<vb_state, commits, worktree, next_oid, next_stack_id, last,
          exclusive_worktree_access, calls>>

\* ------------------------------------------------------------------ bounds

MaxOid == 5
MaxStacks == 3

\* ------------------------------------------------------------ value domains

None == [none |-> TRUE]
Some(v) == [some |-> v]
IsSome(o) == DOMAIN o = {"some"}

BranchNames == {"a", "c", "u"}
Descriptions == {"d2"}
AllPaths == <<"f", "g">>
KnownPaths == <<"e", "f", "g", "b", "l", "s">>
FileSelections == {<<>>, <<"f", "h">>}

NL == "\n"
CR == "\r"
SP == " "
Titles == {<<SP, "T", NL>>}
NewTitles == {<<"U">>}
Bodies == {<<"B", SP>>}

\* ----------------------------------------------------------------- results

Ok(v) == [kind |-> "Ok", val |-> v]
Err(e) == [kind |-> "Err", err |-> e]
Panic(e) == [kind |-> "Panic", err |-> e]

\* ---------------------------------------------------------------- sequences

Contains(seq, v) == \E i \in 1..Len(seq) : seq[i] = v

Range(seq) == {seq[i] : i \in 1..Len(seq)}

RECURSIVE Flatten(_)
Flatten(seqs) ==
    IF seqs = <<>> THEN <<>> ELSE Head(seqs) \o Flatten(Tail(seqs))

IndexOf(seq, v) == CHOOSE i \in 1..Len(seq) : seq[i] = v

\* ------------------------------------------------------------------ strings

IsWhitespace(c) == c \in {SP, NL, CR}

RECURSIVE TrimStart(_)
TrimStart(s) ==
    IF s # <<>> /\ IsWhitespace(Head(s)) THEN TrimStart(Tail(s)) ELSE s

RECURSIVE TrimEnd(_)
TrimEnd(s) ==
    IF s # <<>> /\ IsWhitespace(s[Len(s)])
    THEN TrimEnd(SubSeq(s, 1, Len(s) - 1))
    ELSE s

\* str::trim
Trim(s) == TrimEnd(TrimStart(s))

\* format!("{}\n\n{}", title.trim(), body.trim())
ComposeMessage(title, body) == Trim(title) \o <<NL, NL>> \o Trim(body)

\* ------------------------------------------------------------- identifiers

\* The text of a stack id / commit id as a tool parameter carries it.
StackIdText(n) == <<"uuid", n>>
OidText(n) == <<"hex", n>>
Junk == <<"junk">>

\* StackId::from_str
StackId_from_str(text) ==
    IF Len(text) = 2 /\ text[1] = "uuid" THEN Ok(text[2]) ELSE Err("invalid stack id")

\* gix::ObjectId::from_str
ObjectId_from_str(text) ==
    IF Len(text) = 2 /\ text[1] = "hex" THEN Ok(text[2]) ELSE Err("invalid object id")

\* ------------------------------------------------------- the workspace model

\* A workspace state as the functions below pass it along.
State(vb, cs, wt, oid, sid) ==
    [vb |-> vb, commits |-> cs, worktree |-> wt, next_oid |-> oid, next_stack_id |-> sid]

Branch(name, description, archived, cs) ==
    [name |-> name, description |-> description, archived |-> archived, commits |-> cs]

Stack(id, in_workspace, heads) ==
    [id |-> id, in_workspace |-> in_workspace, heads |-> heads]

HasHead(stack, name) == \E h \in 1..Len(stack.heads) : stack.heads[h].name = name

HasStack(vb, id) == \E i \in 1..Len(vb) : vb[i].id = id

StackIndex(vb, id) == CHOOSE i \in 1..Len(vb) : vb[i].id = id

\* The commits of a stack, oldest first: a stack is one line of commits cut into branches.
Chain(stack) == Flatten([h \in 1..Len(stack.heads) |-> stack.heads[h].commits])

\* The commit and everything built on it in its stack, oldest first.
Downstream(stack, oid) ==
    LET chain == Chain(stack)
    IN  IF Contains(chain, oid) THEN SubSeq(chain, IndexOf(chain, oid), Len(chain)) ELSE <<>>

\* Every branch name of the project, in the workspace or not.
AllBranchNames(vb) ==
    UNION {{vb[i].heads[h].name : h \in 1..Len(vb[i].heads)} : i \in 1..Len(vb)}

\* (old, new) pairs giving olds[i] the id first_new + i - 1.
RemapPairs(olds, first_new) == [i \in 1..Len(olds) |-> <<olds[i], first_new + i - 1>>]

Remapped(pairs, oid) ==
    IF \E i \in 1..Len(pairs) : pairs[i][1] = oid
    THEN pairs[CHOOSE i \in 1..Len(pairs) : pairs[i][1] = oid][2]
    ELSE oid

OldOf(pairs, new) == pairs[CHOOSE i \in 1..Len(pairs) : pairs[i][2] = new][1]

\* The stack with the ids of its commits replaced as the pairs say.
RewriteStack(stack, pairs) ==
    [stack EXCEPT !.heads =
        [h \in 1..Len(stack.heads) |->
            [stack.heads[h] EXCEPT !.commits =
                [c \in 1..Len(stack.heads[h].commits) |->
                    Remapped(pairs, stack.heads[h].commits[c])]]]]

RewriteAll(vb, pairs) == [i \in 1..Len(vb) |-> RewriteStack(vb[i], pairs)]

\* The object store after the rewrite: a rewritten commit keeps its content under
\* its new id, except where `content` gives it another.
RewriteStore(cs, pairs, content) ==
    LET olds == {pairs[i][1] : i \in 1..Len(pairs)}
        news == {pairs[i][2] : i \in 1..Len(pairs)}
    IN  [o \in (DOMAIN cs \ olds) \cup news |->
            IF o \in news
            THEN (IF OldOf(pairs, o) \in DOMAIN content
                  THEN content[OldOf(pairs, o)]
                  ELSE cs[OldOf(pairs, o)])
            ELSE cs[o]]

CommitObject(message, files) == [message |-> message, files |-> files]

NoContent == [o \in {} |-> CommitObject(<<>>, {})]

\* but_workspace::DiffSpec of a path
DiffSpec(path) == [path |-> path, previous_path |-> None, hunk_headers |-> <<>>]

PathsOf(changes) == {changes[i].path : i \in 1..Len(changes)}

\* The worktree after the changes on `paths` went into a commit.
WithoutPaths(wt, paths) == SelectSeq(wt, LAMBDA p : p \notin paths)

\* ------------------------------------------------------------ collaborators
\* Each returns [result, state]: what it answers and the workspace it leaves.
\* `ok` is the outcome drawn for it in this call; it also fails where its
\* arguments name nothing.

Answer(result, S) == [result |-> result, state |-> S]

\* gitbutler_branch_actions::create_virtual_branch: a new stack holding one
\* branch of that name; a name some branch already has is refused.
create_virtual_branch(S, name, ok) ==
    IF ~ok \/ name \in AllBranchNames(S.vb)
    THEN Answer(Err("create_virtual_branch"), S)
    ELSE Answer(Ok(S.next_stack_id),
                [S EXCEPT !.vb = Append(@, Stack(S.next_stack_id, TRUE,
                                                  <<Branch(name, None, FALSE, <<>>)>>)),
                          !.next_stack_id = @ + 1])

\* VirtualBranchesHandle::get_stack
get_stack(S, stack_id, ok) ==
    IF ~ok \/ ~HasStack(S.vb, stack_id)
    THEN Answer(Err("get_stack"), S)
    ELSE Answer(Ok(stack_id), S)

\* PatchReferenceUpdate { description, ..Default::default() }
PatchReferenceUpdate(description) == [name |-> None, description |-> description]

\* Stack::update_branch: the fields the update gives are written over the
\* branch's own, the others are kept.
update_branch(S, stack_id, branch_name, update, ok) ==
    IF ~ok \/ ~HasStack(S.vb, stack_id)
           \/ ~HasHead(S.vb[StackIndex(S.vb, stack_id)], branch_name)
    THEN Answer(Err("update_branch"), S)
    ELSE LET i == StackIndex(S.vb, stack_id)
             heads == S.vb[i].heads
         IN  Answer(Ok(stack_id),
                    [S EXCEPT !.vb[i].heads =
                        [h \in 1..Len(heads) |->
                            IF heads[h].name = branch_name /\ IsSome(update.description)
                            THEN [heads[h] EXCEPT !.description = update.description.some]
                            ELSE heads[h]]])

\* The stack with commit `oid` put on top of branch h, and the pairs that
\* rewrite the commits of the branches above it.
CommitOnBranch(S, i, h, oid, content) ==
    LET stack == S.vb[i]
        above == Flatten([k \in 1..(Len(stack.heads) - h) |-> stack.heads[h + k].commits])
        pairs == RemapPairs(above, oid + 1)
        moved == RewriteStack(stack, pairs)
    IN  [S EXCEPT !.vb[i] = [moved EXCEPT !.heads[h].commits = Append(@, oid)],
                  !.commits = RewriteStore(S.commits, pairs, NoContent) @@ (oid :> content),
                  !.next_oid = oid + 1 + Len(above),
                  !.worktree = WithoutPaths(@, content.files)]

\* but_workspace::commit_engine::CreateCommitOutcome
CreateCommitOutcome(new_commit) == [rejected_specs |-> <<>>, new_commit |-> new_commit]

\* impl From<CreateCommitOutcome> for ui::CreateCommitOutcome
UiCreateCommitOutcome(outcome) ==
    [new_commit |-> outcome.new_commit,
     paths_to_rejected_changes |->
        [k \in 1..Len(outcome.rejected_specs) |-> outcome.rejected_specs[k].path]]

\* but_workspace::commit_engine::create_commit_simple: a new commit holding
\* the changes, on top of the named branch of the stack.
create_commit_simple(S, stack_id, file_changes, message, branch_name, ok) ==
    IF ~ok \/ ~HasStack(S.vb, stack_id)
           \/ ~HasHead(S.vb[StackIndex(S.vb, stack_id)], branch_name)
    THEN Answer(Err("create_commit_simple"), S)
    ELSE LET i == StackIndex(S.vb, stack_id)
             h == CHOOSE k \in 1..Len(S.vb[i].heads) : S.vb[i].heads[k].name = branch_name
         IN  Answer(Ok(CreateCommitOutcome(Some(S.next_oid))),
                    CommitOnBranch(S, i, h, S.next_oid,
                                   CommitObject(message, PathsOf(file_changes))))

\* The stack and the store with the commits of `olds` (oldest first) given
\* new ids from S.next_oid on, `content` replacing what the rewritten commits hold.
Rebuilt(S, olds, content) ==
    LET pairs == RemapPairs(olds, S.next_oid)
    IN  [pairs |-> pairs,
         state |-> [S EXCEPT !.vb = RewriteAll(S.vb, pairs),
                             !.commits = RewriteStore(S.commits, pairs, content),
                             !.next_oid = @ + Len(olds)]]

InStack(S, stack_id, oid) ==
    /\ HasStack(S.vb, stack_id)
    /\ Contains(Chain(S.vb[StackIndex(S.vb, stack_id)]), oid)

\* but_workspace::commit_engine::create_commit_and_update_refs_with_project
\* with Destination::AmendCommit { commit_id, new_message }: the commit is
\* rebuilt with the new message and the changes added, and so is what is on it.
create_commit_and_update_refs_with_project(S, stack_id, commit_id, new_message, file_changes, ok) ==
    IF ~ok \/ ~InStack(S, stack_id, commit_id)
    THEN Answer(Err("create_commit_and_update_refs_with_project"), S)
    ELSE LET olds == Downstream(S.vb[StackIndex(S.vb, stack_id)], commit_id)
             amended == CommitObject(IF IsSome(new_message) THEN new_message.some
                                     ELSE S.commits[commit_id].message,
                                     S.commits[commit_id].files \cup PathsOf(file_changes))
             built == Rebuilt(S, olds, (commit_id :> amended))
         IN  Answer(Ok(CreateCommitOutcome(Some(Remapped(built.pairs, commit_id)))),
                    [built.state EXCEPT !.worktree = WithoutPaths(@, PathsOf(file_changes))])

\* gitbutler_branch_actions::insert_blank_commit(ctx, stack_id, commit_oid, -1, message):
\* an empty commit is put on commit_oid, in its branch; it and every commit on
\* it get a new id, and the (old, new) pairs are returned, the new commit's first.
insert_blank_commit(S, stack_id, commit_oid, message, ok) ==
    IF ~ok \/ ~InStack(S, stack_id, commit_oid)
    THEN Answer(Err("insert_blank_commit"), S)
    ELSE LET i == StackIndex(S.vb, stack_id)
             blank == S.next_oid
             heads == S.vb[i].heads
             placed == [S EXCEPT
                 !.vb[i].heads =
                     [h \in 1..Len(heads) |->
                         IF Contains(heads[h].commits, commit_oid)
                         THEN LET at == IndexOf(heads[h].commits, commit_oid)
                              IN  [heads[h] EXCEPT !.commits =
                                     SubSeq(@, 1, at) \o <<blank>> \o SubSeq(@, at + 1, Len(@))]
                         ELSE heads[h]],
                 !.commits = @ @@ (blank :> CommitObject(message, {})),
                 !.next_oid = @ + 1]
             built == Rebuilt(placed, Downstream(placed.vb[i], blank), NoContent)
         IN  Answer(Ok(built.pairs), built.state)

\* but_workspace::move_changes_between_commits: the changes on the given paths
\* leave the source commit for the destination commit; both, and every commit
\* on either, get a new id.  The answer's replaced_commits are the (old, new) pairs.
move_changes_between_commits(S, source_stack_id, source_commit_id, destination_stack_id, destination_commit_id, changes, ok) ==
    IF \/ ~ok
       \/ ~InStack(S, source_stack_id, source_commit_id)
       \/ ~InStack(S, destination_stack_id, destination_commit_id)
       \/ source_commit_id = destination_commit_id
    THEN Answer(Err("move_changes_between_commits"), S)
    ELSE LET from == Downstream(S.vb[StackIndex(S.vb, source_stack_id)], source_commit_id)
             to == Downstream(S.vb[StackIndex(S.vb, destination_stack_id)],
                              destination_commit_id)
             olds == from \o SelectSeq(to, LAMBDA o : ~Contains(from, o))
             moved == PathsOf(changes) \cap S.commits[source_commit_id].files
             source == S.commits[source_commit_id]
             destination == S.commits[destination_commit_id]
             built == Rebuilt(S, olds,
                 (source_commit_id :> [source EXCEPT !.files = @ \ moved]) @@
                 (destination_commit_id :> [destination EXCEPT !.files = @ \cup moved]))
         IN  Answer(Ok([replaced_commits |-> built.pairs]), built.state)

\* gitbutler_branch_actions::update_workspace_commit
update_workspace_commit(S, ok) ==
    IF ~ok THEN Answer(Err("update_workspace_commit"), S) ELSE Answer(Ok("updated"), S)

\* ------------------------------------------------------------------ commit

\* What a function did: the workspace it leaves, the calls it made on its
\* collaborators in order, and what it returns.
Done(S, events, result) == [state |-> S, events |-> events, result |-> result]

\* but_workspace::stacks(.., StacksFilter::InWorkspace): the entries of the
\* stacks applied to the workspace.
stacks(S) ==
    LET applied == SelectSeq(S.vb, LAMBDA s : s.in_workspace)
    IN  [i \in 1..Len(applied) |->
            [id |-> applied[i].id,
             heads |-> [h \in 1..Len(applied[i].heads) |->
                            [name |-> applied[i].heads[h].name]]]]

\* No filter: every pending change is taken.
FilterChanges_unfiltered(wt, files) == [k \in 1..Len(wt) |-> DiffSpec(wt[k])]

\* The filter with an empty selection read as "every change".
FilterChanges_all_when_empty(wt, files) ==
    LET kept == SelectSeq(wt, LAMBDA path : files = <<>> \/ Contains(files, path))
    IN  [k \in 1..Len(kept) |-> DiffSpec(kept[k])]

\* worktree.changes.iter().filter(|change| files.contains(path)).map(Into::into)
FilterChanges(wt, files) ==
    LET kept == SelectSeq(wt, LAMBDA path : Contains(files, path))
    IN  [k \in 1..Len(kept) |-> DiffSpec(kept[k])]

\* The lookup looking at the first head of each stack only.
FindStackId_first_head(entries, branch_name) ==
    LET hits == {i \in 1..Len(entries) :
                    entries[i].heads # <<>> /\ entries[i].heads[1].name = branch_name}
    IN  IF hits = {} THEN None
        ELSE Some(entries[CHOOSE i \in hits : \A j \in hits : i <= j].id)

\* stacks.iter().find_map(|s| if s.heads.iter().any(|h| h.name == name) { Some(s.id) } else { None })
FindStackId(entries, branch_name) ==
    LET hits == {i \in 1..Len(entries) :
                    \E h \in 1..Len(entries[i].heads) : entries[i].heads[h].name = branch_name}
    IN  IF hits = {} THEN None
        ELSE Some(entries[CHOOSE i \in hits : \A j \in hits : i <= j].id)

\* The update with the description left out.
DescriptionUpdate_left_out(branch_description) == PatchReferenceUpdate(None)

\* The description create_commit and create_branch hand to update_branch.
DescriptionUpdate(branch_description) == PatchReferenceUpdate(Some(Some(branch_description)))

\* The notification sent twice.
EmitStackUpdate_twice(app_handle, stack_id) ==
    IF IsSome(app_handle)
    THEN <<[op |-> "emit_stack_update", stack_id |-> stack_id,
            delivered |-> app_handle.some = "delivers"],
           [op |-> "emit_stack_update", stack_id |-> stack_id,
            delivered |-> app_handle.some = "delivers"]>>
    ELSE <<>>

\* The notification left out.
EmitStackUpdate_never(app_handle, stack_id) == <<>>

\* if let Some(app_handle) = app_handle { app_handle.emit_stack_update(project_id, stack_id) }
EmitStackUpdate(app_handle, stack_id) ==
    IF IsSome(app_handle)
    THEN <<[op |-> "emit_stack_update", stack_id |-> stack_id,
            delivered |-> app_handle.some = "delivers"]>>
    ELSE <<>>

\* The outcome recorded only where the engine succeeded.
RecordSnapshot_success_only(x, outcome) ==
    IF x.snapshot_ok /\ outcome.kind = "Ok"
    THEN <<[op |-> "snapshot_commit_creation", error |-> None, ok |-> x.record_ok]>>
    ELSE <<>>

\* let _ = snapshot_tree.and_then(|tree| ctx.snapshot_commit_creation(tree, outcome.err(), ..))
RecordSnapshot(x, outcome) ==
    IF x.snapshot_ok
    THEN <<[op |-> "snapshot_commit_creation",
            error |-> IF outcome.kind = "Err" THEN Some(outcome.err) ELSE None,
            ok |-> x.record_ok]>>
    ELSE <<>>

\* The result with a failure of the snapshot handed on (snapshot_tree? in place of let _).
CommitResult_snapshot_first(x, outcome) ==
    IF ~x.snapshot_ok \/ ~x.record_ok THEN Err("prepare_snapshot")
    ELSE IF outcome.kind = "Ok" THEN Ok(UiCreateCommitOutcome(outcome.val)) ELSE outcome

\* outcome?.into()
CommitResult(x, outcome) ==
    IF outcome.kind = "Ok" THEN Ok(UiCreateCommitOutcome(outcome.val)) ELSE outcome

\* create_commit giving back the workspace it was called on where it fails
\* after having created the stack.
create_commit_rolling_back(S, app_handle, params, x) ==
    IF x.fail = "gix_repo" THEN Done(S, <<>>, Err("gix_repo"))
    ELSE
    LET guard == <<[op |-> "exclusive_worktree_access"]>>
    IN
    IF x.fail = "worktree_changes" THEN Done(S, guard, Err("worktree_changes"))
    ELSE
    LET file_changes == FilterChanges(S.worktree, params.files)
    IN
    IF x.fail = "stacks" THEN Done(S, guard, Err("stacks"))
    ELSE
    LET found == FindStackId(stacks(S), params.branch_name)
        created == create_virtual_branch(S, params.branch_name,
                                         x.fail # "create_virtual_branch")
    IN
    IF ~IsSome(found) /\ created.result.kind = "Err"
    THEN Done(S, guard \o <<[op |-> "create_virtual_branch", name |-> params.branch_name,
                             ok |-> FALSE]>>,
              Panic("Failed to create virtual branch"))
    ELSE
    LET stack_id == IF IsSome(found) THEN found.some ELSE created.result.val
        S1 == IF IsSome(found) THEN S ELSE created.state
        e1 == guard \o
              (IF IsSome(found) THEN <<>>
               ELSE <<[op |-> "create_virtual_branch", name |-> params.branch_name,
                       ok |-> TRUE]>>)
        got == get_stack(S1, stack_id, x.fail # "get_stack")
    IN
    IF got.result.kind = "Err" THEN Done(S, e1, got.result)
    ELSE
    LET updated == update_branch(S1, stack_id, params.branch_name,
                                 DescriptionUpdate(params.branch_description),
                                 x.fail # "update_branch")
        e2 == e1 \o <<[op |-> "update_branch", stack_id |-> stack_id,
                       name |-> params.branch_name,
                       ok |-> updated.result.kind = "Ok"]>>
    IN
    IF updated.result.kind = "Err" THEN Done(S, e2, updated.result)
    ELSE
    LET S2 == updated.state
        e3 == e2 \o <<[op |-> "prepare_snapshot", ok |-> x.snapshot_ok]>>
        message == ComposeMessage(params.message_title, params.message_body)
        engine == create_commit_simple(S2, stack_id, file_changes, message,
                                       params.branch_name, x.fail # "create_commit_simple")
        outcome == engine.result
        e4 == e3 \o <<[op |-> "create_commit_simple", stack_id |-> stack_id,
                       changes |-> file_changes, message |-> message,
                       branch |-> params.branch_name, ok |-> outcome.kind = "Ok"]>>
        e5 == e4 \o RecordSnapshot(x, outcome)
        e6 == e5 \o EmitStackUpdate(app_handle, stack_id)
    IN  Done(IF outcome.kind = "Ok" THEN engine.state ELSE S, e6,
             CommitResult(x, outcome))

create_commit(S, app_handle, params, x) ==
    IF x.fail = "gix_repo" THEN Done(S, <<>>, Err("gix_repo"))
    ELSE
    LET guard == <<[op |-> "exclusive_worktree_access"]>>
    IN
    IF x.fail = "worktree_changes" THEN Done(S, guard, Err("worktree_changes"))
    ELSE
    LET file_changes == FilterChanges(S.worktree, params.files)
    IN
    IF x.fail = "stacks" THEN Done(S, guard, Err("stacks"))
    ELSE
    LET found == FindStackId(stacks(S), params.branch_name)
        created == create_virtual_branch(S, params.branch_name,
                                         x.fail # "create_virtual_branch")
    IN
    IF ~IsSome(found) /\ created.result.kind = "Err"
    THEN Done(S, guard \o <<[op |-> "create_virtual_branch", name |-> params.branch_name,
                             ok |-> FALSE]>>,
              Panic("Failed to create virtual branch"))
    ELSE
    LET stack_id == IF IsSome(found) THEN found.some ELSE created.result.val
        S1 == IF IsSome(found) THEN S ELSE created.state
        e1 == guard \o
              (IF IsSome(found) THEN <<>>
               ELSE <<[op |-> "create_virtual_branch", name |-> params.branch_name,
                       ok |-> TRUE]>>)
        got == get_stack(S1, stack_id, x.fail # "get_stack")
    IN
    IF got.result.kind = "Err" THEN Done(S1, e1, got.result)
    ELSE
    LET updated == update_branch(S1, stack_id, params.branch_name,
                                 DescriptionUpdate(params.branch_description),
                                 x.fail # "update_branch")
        e2 == e1 \o <<[op |-> "update_branch", stack_id |-> stack_id,
                       name |-> params.branch_name,
                       ok |-> updated.result.kind = "Ok"]>>
    IN
    IF updated.result.kind = "Err" THEN Done(S1, e2, updated.result)
    ELSE
    LET S2 == updated.state
        e3 == e2 \o <<[op |-> "prepare_snapshot", ok |-> x.snapshot_ok]>>
        message == ComposeMessage(params.message_title, params.message_body)
        engine == create_commit_simple(S2, stack_id, file_changes, message,
                                       params.branch_name, x.fail # "create_commit_simple")
        outcome == engine.result
        e4 == e3 \o <<[op |-> "create_commit_simple", stack_id |-> stack_id,
                       changes |-> file_changes, message |-> message,
                       branch |-> params.branch_name, ok |-> outcome.kind = "Ok"]>>
        e5 == e4 \o RecordSnapshot(x, outcome)
        e6 == e5 \o EmitStackUpdate(app_handle, stack_id)
    IN  Done(engine.state, e6, CommitResult(x, outcome))

\* ----------------------------------------------------------- create_branch

\* create_branch looking the name up first, as create_commit does, and using
\* the stack that has a branch of that name.
create_branch_reusing(S, app_handle, params, x) ==
    LET guard == <<[op |-> "exclusive_worktree_access"]>>
        name == params.branch_name
        found == FindStackId(stacks(S), name)
        created == create_virtual_branch(S, name, x.fail # "create_virtual_branch")
        e1 == guard \o
              (IF IsSome(found) THEN <<>>
               ELSE <<[op |-> "create_virtual_branch", name |-> name,
                       ok |-> created.result.kind = "Ok"]>>)
    IN
    IF ~IsSome(found) /\ created.result.kind = "Err" THEN Done(S, e1, created.result)
    ELSE
    LET stack_id == IF IsSome(found) THEN found.some ELSE created.result.val
        S1 == IF IsSome(found) THEN S ELSE created.state
        updated == update_branch(S1, stack_id, name,
                                 DescriptionUpdate(params.branch_description),
                                 x.fail # "update_branch")
        e2 == e1 \o <<[op |-> "update_branch", stack_id |-> stack_id,
                       name |-> name, ok |-> updated.result.kind = "Ok"]>>
    IN
    IF x.fail = "get_stack" THEN Done(S1, e1, Err("get_stack"))
    ELSE IF updated.result.kind = "Err" THEN Done(S1, e2, updated.result)
    ELSE Done(updated.state, e2 \o EmitStackUpdate(app_handle, stack_id),
              Ok([id |-> stack_id, heads |-> <<[name |-> name]>>]))

create_branch(S, app_handle, params, x) ==
    LET guard == <<[op |-> "exclusive_worktree_access"]>>
        name == params.branch_name
        description == params.branch_description
        created == create_virtual_branch(S, name, x.fail # "create_virtual_branch")
        e1 == guard \o <<[op |-> "create_virtual_branch", name |-> name,
                         ok |-> created.result.kind = "Ok"]>>
    IN
    IF created.result.kind = "Err" THEN Done(S, e1, created.result)
    ELSE
    LET stack_entry == [id |-> created.result.val, heads |-> <<[name |-> name]>>]
        S1 == created.state
        got == get_stack(S1, stack_entry.id, x.fail # "get_stack")
    IN
    IF got.result.kind = "Err" THEN Done(S1, e1, got.result)
    ELSE
    LET updated == update_branch(S1, stack_entry.id, name, DescriptionUpdate(description),
                                 x.fail # "update_branch")
        e2 == e1 \o <<[op |-> "update_branch", stack_id |-> stack_entry.id,
                       name |-> name, ok |-> updated.result.kind = "Ok"]>>
    IN
    IF updated.result.kind = "Err" THEN Done(S1, e2, updated.result)
    ELSE Done(updated.state, e2 \o EmitStackUpdate(app_handle, got.result.val),
              Ok(stack_entry))

\* ------------------------------------------------------------------- amend

amend_commit_inner(S, app_handle, params, x) ==
    IF x.fail = "gix_repo" THEN Done(S, <<>>, Err("gix_repo"))
    ELSE
    LET guard == <<[op |-> "exclusive_worktree_access"]>>
    IN
    IF x.fail = "worktree_changes" THEN Done(S, guard, Err("worktree_changes"))
    ELSE
    LET file_changes == FilterChanges(S.worktree, params.files)
        message == ComposeMessage(params.message_title, params.message_body)
        stack_id == StackId_from_str(params.stack_id)
    IN
    IF stack_id.kind = "Err" THEN Done(S, guard, stack_id)
    ELSE
    LET commit_id == ObjectId_from_str(params.commit_id)
    IN
    IF commit_id.kind = "Err" THEN Done(S, guard, commit_id)
    ELSE
    LET engine == create_commit_and_update_refs_with_project(
                      S, stack_id.val, commit_id.val, Some(message), file_changes,
                      x.fail # "create_commit_and_update_refs_with_project")
        outcome == engine.result
        e1 == guard \o <<[op |-> "create_commit_and_update_refs_with_project",
                         stack_id |-> stack_id.val, commit_id |-> commit_id.val,
                         changes |-> file_changes, message |-> message,
                         ok |-> outcome.kind = "Ok"]>>
    IN  Done(engine.state, e1 \o EmitStackUpdate(app_handle, stack_id.val), outcome)

\* amend_commit with a notification that was not delivered handed on as the call's error.
amend_commit_notification_first(S, app_handle, params, x) ==
    LET done == amend_commit_inner(S, app_handle, params, x)
        undelivered == \E k \in 1..Len(done.events) :
                           /\ done.events[k].op = "emit_stack_update"
                           /\ ~done.events[k].delivered
    IN  Done(done.state, done.events,
             IF undelivered THEN Err("emit_stack_update") ELSE CommitResult(x, done.result))

amend_commit(S, app_handle, params, x) ==
    LET done == amend_commit_inner(S, app_handle, params, x)
    IN  Done(done.state, done.events, CommitResult(x, done.result))

\* ------------------------------------------------------ create_blank_commit

\* create_blank_commit answering with the pairs of the commits that were there
\* before only, the inserted commit's pair dropped.
create_blank_commit_old_commits_only(S, app_handle, params, x) ==
    LET stack_id == StackId_from_str(params.stack_id)
        commit_oid == ObjectId_from_str(params.parent_id)
    IN
    IF stack_id.kind = "Err" THEN Done(S, <<>>, stack_id)
    ELSE IF commit_oid.kind = "Err" THEN Done(S, <<>>, commit_oid)
    ELSE
    LET message == ComposeMessage(params.message_title, params.message_body)
        inserted == insert_blank_commit(S, stack_id.val, commit_oid.val, message,
                                        x.fail # "insert_blank_commit")
        e1 == <<[op |-> "insert_blank_commit", stack_id |-> stack_id.val,
                 commit_oid |-> commit_oid.val, message |-> message,
                 ok |-> inserted.result.kind = "Ok"]>>
    IN
    IF inserted.result.kind = "Err" THEN Done(S, e1, inserted.result)
    ELSE Done(inserted.state, e1 \o EmitStackUpdate(app_handle, stack_id.val),
              Ok(Tail(inserted.result.val)))

\* A parent id that does not parse handed to the engine as the null id.
create_blank_commit_unparsed_parent(S, app_handle, params, x) ==
    LET stack_id == StackId_from_str(params.stack_id)
    IN
    IF stack_id.kind = "Err" THEN Done(S, <<>>, stack_id)
    ELSE
    LET parsed == ObjectId_from_str(params.parent_id)
        commit_oid == IF parsed.kind = "Err" THEN Ok(0) ELSE parsed
    IN
    LET message == ComposeMessage(params.message_title, params.message_body)
        inserted == insert_blank_commit(S, stack_id.val, commit_oid.val, message,
                                        x.fail # "insert_blank_commit")
        e1 == <<[op |-> "insert_blank_commit", stack_id |-> stack_id.val,
                 commit_oid |-> commit_oid.val, message |-> message,
                 ok |-> inserted.result.kind = "Ok"]>>
    IN
    IF inserted.result.kind = "Err" THEN Done(S, e1, inserted.result)
    ELSE
    LET commit_mapping == inserted.result.val
    IN  Done(inserted.state, e1 \o EmitStackUpdate(app_handle, stack_id.val),
             Ok(commit_mapping))

\* The notification sent before the blank commit is inserted.
create_blank_commit_notifying_first(S, app_handle, params, x) ==
    LET stack_id == StackId_from_str(params.stack_id)
    IN
    IF stack_id.kind = "Err" THEN Done(S, <<>>, stack_id)
    ELSE
    LET commit_oid == ObjectId_from_str(params.parent_id)
    IN
    IF commit_oid.kind = "Err" THEN Done(S, <<>>, commit_oid)
    ELSE
    LET message == ComposeMessage(params.message_title, params.message_body)
        inserted == insert_blank_commit(S, stack_id.val, commit_oid.val, message,
                                        x.fail # "insert_blank_commit")
        e1 == EmitStackUpdate(app_handle, stack_id.val) \o
              <<[op |-> "insert_blank_commit", stack_id |-> stack_id.val,
                 commit_oid |-> commit_oid.val, message |-> message,
                 ok |-> inserted.result.kind = "Ok"]>>
    IN
    IF inserted.result.kind = "Err" THEN Done(S, e1, inserted.result)
    ELSE
    LET commit_mapping == inserted.result.val
    IN  Done(inserted.state, e1, Ok(commit_mapping))

create_blank_commit(S, app_handle, params, x) ==
    LET stack_id == StackId_from_str(params.stack_id)
    IN
    IF stack_id.kind = "Err" THEN Done(S, <<>>, stack_id)
    ELSE
    LET commit_oid == ObjectId_from_str(params.parent_id)
    IN
    IF commit_oid.kind = "Err" THEN Done(S, <<>>, commit_oid)
    ELSE
    LET message == ComposeMessage(params.message_title, params.message_body)
        inserted == insert_blank_commit(S, stack_id.val, commit_oid.val, message,
                                        x.fail # "insert_blank_commit")
        e1 == <<[op |-> "insert_blank_commit", stack_id |-> stack_id.val,
                 commit_oid |-> commit_oid.val, message |-> message,
                 ok |-> inserted.result.kind = "Ok"]>>
    IN
    IF inserted.result.kind = "Err" THEN Done(S, e1, inserted.result)
    ELSE
    LET commit_mapping == inserted.result.val
    IN  Done(inserted.state, e1 \o EmitStackUpdate(app_handle, stack_id.val),
             Ok(commit_mapping))

\* -------------------------------------------------------- move_file_changes

\* The notifications sent before the workspace commit is recomputed.
move_file_changes_notifying_first(S, app_handle, params, x) ==
    LET source_commit_id == ObjectId_from_str(params.source_commit_id)
    IN
    IF source_commit_id.kind = "Err" THEN Done(S, <<>>, source_commit_id)
    ELSE
    LET source_stack_id == StackId_from_str(params.source_stack_id)
    IN
    IF source_stack_id.kind = "Err" THEN Done(S, <<>>, source_stack_id)
    ELSE
    LET destination_commit_id == ObjectId_from_str(params.destination_commit_id)
    IN
    IF destination_commit_id.kind = "Err" THEN Done(S, <<>>, destination_commit_id)
    ELSE
    LET destination_stack_id == StackId_from_str(params.destination_stack_id)
    IN
    IF destination_stack_id.kind = "Err" THEN Done(S, <<>>, destination_stack_id)
    ELSE
    LET changes == [k \in 1..Len(params.files) |-> DiffSpec(params.files[k])]
        moved == move_changes_between_commits(
                     S, source_stack_id.val, source_commit_id.val,
                     destination_stack_id.val, destination_commit_id.val, changes,
                     x.fail # "move_changes_between_commits")
        e1 == <<[op |-> "move_changes_between_commits",
                 source_stack_id |-> source_stack_id.val,
                 source_commit_id |-> source_commit_id.val,
                 destination_stack_id |-> destination_stack_id.val,
                 destination_commit_id |-> destination_commit_id.val,
                 changes |-> changes, ok |-> moved.result.kind = "Ok"]>>
    IN
    IF moved.result.kind = "Err" THEN Done(S, e1, moved.result)
    ELSE
    LET result == moved.result.val
        recomputed == update_workspace_commit(moved.state, x.fail # "update_workspace_commit")
        e2 == e1 \o EmitStackUpdate(app_handle, source_stack_id.val)
                 \o EmitStackUpdate(app_handle, destination_stack_id.val)
                 \o <<[op |-> "update_workspace_commit",
                       ok |-> recomputed.result.kind = "Ok"]>>
    IN
    IF recomputed.result.kind = "Err" THEN Done(recomputed.state, e2, recomputed.result)
    ELSE Done(recomputed.state, e2, Ok(result.replaced_commits))

\* The move undone where the recomputation of the workspace commit fails.
move_file_changes_restoring(S, app_handle, params, x) ==
    LET source_commit_id == ObjectId_from_str(params.source_commit_id)
    IN
    IF source_commit_id.kind = "Err" THEN Done(S, <<>>, source_commit_id)
    ELSE
    LET source_stack_id == StackId_from_str(params.source_stack_id)
    IN
    IF source_stack_id.kind = "Err" THEN Done(S, <<>>, source_stack_id)
    ELSE
    LET destination_commit_id == ObjectId_from_str(params.destination_commit_id)
    IN
    IF destination_commit_id.kind = "Err" THEN Done(S, <<>>, destination_commit_id)
    ELSE
    LET destination_stack_id == StackId_from_str(params.destination_stack_id)
    IN
    IF destination_stack_id.kind = "Err" THEN Done(S, <<>>, destination_stack_id)
    ELSE
    LET changes == [k \in 1..Len(params.files) |-> DiffSpec(params.files[k])]
        moved == move_changes_between_commits(
                     S, source_stack_id.val, source_commit_id.val,
                     destination_stack_id.val, destination_commit_id.val, changes,
                     x.fail # "move_changes_between_commits")
        e1 == <<[op |-> "move_changes_between_commits",
                 source_stack_id |-> source_stack_id.val,
                 source_commit_id |-> source_commit_id.val,
                 destination_stack_id |-> destination_stack_id.val,
                 destination_commit_id |-> destination_commit_id.val,
                 changes |-> changes, ok |-> moved.result.kind = "Ok"]>>
    IN
    IF moved.result.kind = "Err" THEN Done(S, e1, moved.result)
    ELSE
    LET result == moved.result.val
        recomputed == update_workspace_commit(moved.state, x.fail # "update_workspace_commit")
        e2 == e1 \o <<[op |-> "update_workspace_commit",
                       ok |-> recomputed.result.kind = "Ok"]>>
    IN
    IF recomputed.result.kind = "Err" THEN Done(S, e2, recomputed.result)
    ELSE Done(recomputed.state,
              e2 \o EmitStackUpdate(app_handle, source_stack_id.val)
                 \o EmitStackUpdate(app_handle, destination_stack_id.val),
              Ok(result.replaced_commits))

move_file_changes(S, app_handle, params, x) ==
    LET source_commit_id == ObjectId_from_str(params.source_commit_id)
    IN
    IF source_commit_id.kind = "Err" THEN Done(S, <<>>, source_commit_id)
    ELSE
    LET source_stack_id == StackId_from_str(params.source_stack_id)
    IN
    IF source_stack_id.kind = "Err" THEN Done(S, <<>>, source_stack_id)
    ELSE
    LET destination_commit_id == ObjectId_from_str(params.destination_commit_id)
    IN
    IF destination_commit_id.kind = "Err" THEN Done(S, <<>>, destination_commit_id)
    ELSE
    LET destination_stack_id == StackId_from_str(params.destination_stack_id)
    IN
    IF destination_stack_id.kind = "Err" THEN Done(S, <<>>, destination_stack_id)
    ELSE
    LET changes == [k \in 1..Len(params.files) |-> DiffSpec(params.files[k])]
        moved == move_changes_between_commits(
                     S, source_stack_id.val, source_commit_id.val,
                     destination_stack_id.val, destination_commit_id.val, changes,
                     x.fail # "move_changes_between_commits")
        e1 == <<[op |-> "move_changes_between_commits",
                 source_stack_id |-> source_stack_id.val,
                 source_commit_id |-> source_commit_id.val,
                 destination_stack_id |-> destination_stack_id.val,
                 destination_commit_id |-> destination_commit_id.val,
                 changes |-> changes, ok |-> moved.result.kind = "Ok"]>>
    IN
    IF moved.result.kind = "Err" THEN Done(S, e1, moved.result)
    ELSE
    LET result == moved.result.val
        recomputed == update_workspace_commit(moved.state, x.fail # "update_workspace_commit")
        e2 == e1 \o <<[op |-> "update_workspace_commit",
                       ok |-> recomputed.result.kind = "Ok"]>>
    IN
    IF recomputed.result.kind = "Err" THEN Done(recomputed.state, e2, recomputed.result)
    ELSE Done(recomputed.state,
              e2 \o EmitStackUpdate(app_handle, source_stack_id.val)
                 \o EmitStackUpdate(app_handle, destination_stack_id.val),
              Ok(result.replaced_commits))

\* ------------------------------------------------------------------ status

\* The text up to and with the first line feed, and the text after it.
RECURSIVE FirstLineLen(_)
FirstLineLen(s) ==
    IF s = <<>> THEN 0
    ELSE IF Head(s) = NL THEN 1
    ELSE 1 + FirstLineLen(Tail(s))

\* One line without its ending: "\n", or "\r\n".
StripLineEnding(line) ==
    LET a == IF line # <<>> /\ line[Len(line)] = NL
             THEN SubSeq(line, 1, Len(line) - 1) ELSE line
    IN  IF a # <<>> /\ a[Len(a)] = CR /\ line # a
        THEN SubSeq(a, 1, Len(a) - 1) ELSE a

\* str::lines
RECURSIVE Lines(_)
Lines(s) ==
    IF s = <<>> THEN <<>>
    ELSE LET n == FirstLineLen(s)
         IN  <<StripLineEnding(SubSeq(s, 1, n))>> \o Lines(SubSeq(s, n + 1, Len(s)))

\* [..].join("\n")
RECURSIVE JoinLines(_)
JoinLines(lines) ==
    IF lines = <<>> THEN <<>>
    ELSE IF Len(lines) = 1 THEN lines[1]
    ELSE lines[1] \o <<NL>> \o JoinLines(Tail(lines))

StartsWith(s, prefix) ==
    Len(s) >= Len(prefix) /\ SubSeq(s, 1, Len(prefix)) = prefix

\* str::trim_start_matches
RECURSIVE TrimStartMatches(_, _)
TrimStartMatches(s, prefix) ==
    IF StartsWith(s, prefix)
    THEN TrimStartMatches(SubSeq(s, Len(prefix) + 1, Len(s)), prefix)
    ELSE s

\* One leading line feed taken off the body, where the code takes all.
StripLeadingEmptyLines_once(body) ==
    IF StartsWith(body, <<NL>>) THEN Tail(body) ELSE body

\* while body.starts_with('\n') || body.starts_with("\r\n") { .. }
RECURSIVE StripLeadingEmptyLines(_)
StripLeadingEmptyLines(body) ==
    IF StartsWith(body, <<NL>>) \/ StartsWith(body, <<CR, NL>>)
    THEN StripLeadingEmptyLines(TrimStartMatches(TrimStartMatches(body, <<NL>>), <<CR, NL>>))
    ELSE body

\* impl From<but_workspace::ui::Commit> for SimpleCommit
SimpleCommit(id, message) ==
    LET lines == Lines(message)
    IN  [id |-> id,
         message_title |-> IF lines = <<>> THEN <<>> ELSE Head(lines),
         message_body |-> StripLeadingEmptyLines(
                              JoinLines(IF lines = <<>> THEN <<>> ELSE Tail(lines)))]

\* The simple branches of one stack with the archived ones among them.
SimpleBranches_with_archived(S, stack) ==
    LET shown == SelectSeq(stack.heads, LAMBDA b : b.commits # <<>>)
    IN  [k \in 1..Len(shown) |->
            [name |-> shown[k].name,
             description |-> shown[k].description,
             commits |-> [c \in 1..Len(shown[k].commits) |->
                             SimpleCommit(shown[k].commits[c],
                                          S.commits[shown[k].commits[c]].message)]]]

\* The simple branches of one stack: not archived, with a commit.
SimpleBranches(S, stack) ==
    LET shown == SelectSeq(stack.heads, LAMBDA b : ~b.archived /\ b.commits # <<>>)
    IN  [k \in 1..Len(shown) |->
            [name |-> shown[k].name,
             description |-> shown[k].description,
             commits |-> [c \in 1..Len(shown[k].commits) |->
                             SimpleCommit(shown[k].commits[c],
                                          S.commits[shown[k].commits[c]].message)]]]

entries_to_simple_stacks(S, entries, x) ==
    IF entries # <<>> /\ x.fail = "get_stack" THEN Err("get_stack")
    ELSE IF x.fail = "local_and_remote_commits"
            /\ \E i \in 1..Len(entries) :
                  \E h \in 1..Len(S.vb[StackIndex(S.vb, entries[i].id)].heads) :
                      ~S.vb[StackIndex(S.vb, entries[i].id)].heads[h].archived
    THEN Err("local_and_remote_commits")
    ELSE LET all == [i \in 1..Len(entries) |->
                        [id |-> entries[i].id,
                         name |-> entries[i].heads[1].name,
                         branches |-> SimpleBranches(S, S.vb[StackIndex(S.vb, entries[i].id)])]]
         IN  Ok(SelectSeq(all, LAMBDA st : st.branches # <<>>))

\* The change the worktree or a commit holds on a path, and the form the diff
\* engine gives it: a patch is the sequence of its hunks.
Hunk(header, diff) == [header |-> header, diff |-> diff]

TreeChange(path) ==
    CASE path = "e" -> [path |-> path, status |-> "Modification", previous_path |-> None]
      [] path = "f" -> [path |-> path, status |-> "Modification", previous_path |-> None]
      [] path = "g" -> [path |-> path, status |-> "Addition", previous_path |-> None]
      [] OTHER -> [path |-> path, status |-> "Deletion", previous_path |-> None]

\* TreeChange::unified_diff
unified_diff(change) ==
    CASE change.path = "e" -> Some([patch |-> <<Hunk(<<1, 1, 1, 2>>, "@@e1")>>])
      [] change.path = "f" -> Some([patch |-> <<Hunk(<<1, 2, 1, 3>>, "@@f1"),
                                                Hunk(<<9, 1, 10, 1>>, "@@f2")>>])
      [] change.path = "g" -> Some([patch |-> <<Hunk(<<0, 0, 1, 4>>, "@@g1")>>])
      [] change.path = "l" -> Some([too_large |-> [size_in_bytes |-> 9]])
      [] change.path = "s" -> None
      [] OTHER -> Some([binary |-> TRUE])

\* but_hunk_assignment::assignments_with_fallback: the assignment table.
HunkAssignments ==
    <<[path_bytes |-> "f", hunk_header |-> Some(<<1, 2, 1, 3>>), stack_id |-> Some(1),
       hunk_locks |-> Some(<<[stack_id |-> 1, commit_id |-> 1]>>)],
      [path_bytes |-> "g", hunk_header |-> None, stack_id |-> Some(1), hunk_locks |-> None],
      [path_bytes |-> "g", hunk_header |-> Some(<<9, 1, 10, 1>>), stack_id |-> None,
       hunk_locks |-> None]>>

unified_diff_for_changes(changes, x) ==
    IF changes # <<>> /\ x.fail = "unified_diff" THEN Err("unified_diff")
    ELSE IF \E k \in 1..Len(changes) : ~IsSome(unified_diff(changes[k]))
    THEN Panic("no submodule")
    ELSE Ok([k \in 1..Len(changes) |-> <<changes[k], unified_diff(changes[k]).some>>])

StatusText(change) ==
    CASE change.status = "Addition" -> "added"
      [] change.status = "Deletion" -> "deleted"
      [] change.status = "Modification" -> "modified"
      [] OTHER -> <<"renamed from", change.previous_path>>

\* The lookup matching an assignment on its path alone.
RichHunk_path_only(change, hunk, assignments) ==
    LET hits == {k \in 1..Len(assignments) : assignments[k].path_bytes = change.path}
        assignment == IF hits = {} THEN None
                      ELSE Some(assignments[CHOOSE k \in hits : \A j \in hits : k <= j])
    IN  [diff |-> hunk.diff,
         assigned_to_stack |-> IF IsSome(assignment) THEN assignment.some.stack_id ELSE None,
         dependency_locks |->
            IF IsSome(assignment) /\ IsSome(assignment.some.hunk_locks)
            THEN assignment.some.hunk_locks.some ELSE <<>>]

RichHunk(change, hunk, assignments) ==
    LET hits == {k \in 1..Len(assignments) :
                    /\ assignments[k].path_bytes = change.path
                    /\ assignments[k].hunk_header = Some(hunk.header)}
        assignment == IF hits = {} THEN None
                      ELSE Some(assignments[CHOOSE k \in hits : \A j \in hits : k <= j])
    IN  [diff |-> hunk.diff,
         assigned_to_stack |-> IF IsSome(assignment) THEN assignment.some.stack_id ELSE None,
         dependency_locks |->
            IF IsSome(assignment) /\ IsSome(assignment.some.hunk_locks)
            THEN assignment.some.hunk_locks.some ELSE <<>>]

get_file_changes(changes, assignments) ==
    LET patches == SelectSeq(changes, LAMBDA cd : "patch" \in DOMAIN cd[2])
    IN  [k \in 1..Len(patches) |->
            [path |-> patches[k][1].path,
             status |-> StatusText(patches[k][1]),
             hunks |-> [n \in 1..Len(patches[k][2].patch) |->
                           RichHunk(patches[k][1], patches[k][2].patch[n], assignments)]]]

get_filtered_changes(S, filter_changes, x) ==
    IF x.fail = "worktree_changes" THEN Err("worktree_changes")
    ELSE
    LET paths == IF IsSome(filter_changes)
                 THEN SelectSeq(S.worktree, LAMBDA path : Contains(filter_changes.some, path))
                 ELSE S.worktree
        changes == [k \in 1..Len(paths) |-> TreeChange(paths[k])]
        diff == unified_diff_for_changes(changes, x)
    IN
    IF diff.kind # "Ok" THEN diff
    ELSE IF x.fail = "assignments_with_fallback" THEN Err("assignments_with_fallback")
    ELSE Ok(get_file_changes(diff.val, HunkAssignments))

\* get_project_status taking the changes it reports out of the pending changes.
get_project_status_consuming(S, filter_changes, x) ==
    LET simple == entries_to_simple_stacks(S, stacks(S), x)
        file_changes == get_filtered_changes(S, filter_changes, x)
    IN
    IF x.fail = "stacks" THEN Done(S, <<>>, Err("stacks"))
    ELSE IF simple.kind # "Ok" THEN Done(S, <<>>, simple)
    ELSE IF file_changes.kind # "Ok" THEN Done(S, <<>>, file_changes)
    ELSE Done([S EXCEPT !.worktree =
                   WithoutPaths(@, {file_changes.val[k].path : k \in 1..Len(file_changes.val)})],
              <<>>, Ok([stacks |-> simple.val, file_changes |-> file_changes.val]))

get_project_status(S, filter_changes, x) ==
    IF x.fail = "stacks" THEN Done(S, <<>>, Err("stacks"))
    ELSE
    LET simple == entries_to_simple_stacks(S, stacks(S), x)
    IN
    IF simple.kind # "Ok" THEN Done(S, <<>>, simple)
    ELSE
    LET file_changes == get_filtered_changes(S, filter_changes, x)
    IN
    IF file_changes.kind # "Ok" THEN Done(S, <<>>, file_changes)
    ELSE Done(S, <<>>, Ok([stacks |-> simple.val, file_changes |-> file_changes.val]))

\* The details of a commit with the assignments of the pending changes looked up.
commit_details_with_assignments(S, params, x) ==
    IF x.fail = "gix_repo" THEN Done(S, <<>>, Err("gix_repo"))
    ELSE
    LET commit_id == ObjectId_from_str(params.commit_id)
    IN
    IF commit_id.kind = "Err" THEN Done(S, <<>>, commit_id)
    ELSE IF x.fail = "commit_changes_by_worktree_dir" \/ commit_id.val \notin DOMAIN S.commits
    THEN Done(S, <<>>, Err("commit_changes_by_worktree_dir"))
    ELSE
    LET paths == SelectSeq(KnownPaths,
                           LAMBDA path : path \in S.commits[commit_id.val].files)
        changes == [k \in 1..Len(paths) |-> TreeChange(paths[k])]
        diff == unified_diff_for_changes(changes, x)
    IN
    IF diff.kind # "Ok" THEN Done(S, <<>>, diff)
    ELSE Done(S, <<>>, Ok(get_file_changes(diff.val, HunkAssignments)))

commit_details(S, params, x) ==
    IF x.fail = "gix_repo" THEN Done(S, <<>>, Err("gix_repo"))
    ELSE
    LET commit_id == ObjectId_from_str(params.commit_id)
    IN
    IF commit_id.kind = "Err" THEN Done(S, <<>>, commit_id)
    ELSE IF x.fail = "commit_changes_by_worktree_dir" \/ commit_id.val \notin DOMAIN S.commits
    THEN Done(S, <<>>, Err("commit_changes_by_worktree_dir"))
    ELSE
    LET paths == SelectSeq(KnownPaths,
                           LAMBDA path : path \in S.commits[commit_id.val].files)
        changes == [k \in 1..Len(paths) |-> TreeChange(paths[k])]
        diff == unified_diff_for_changes(changes, x)
    IN
    IF diff.kind # "Ok" THEN Done(S, <<>>, diff)
    ELSE Done(S, <<>>, Ok(get_file_changes(diff.val, <<>>)))

\* ------------------------------------------------------------------- tools

\* serde_json::from_value into a #[serde(rename_all = "camelCase")] struct:
\* every field of the struct must be there under its camelCase name.
CommitParameters_from_value(json) ==
    IF {"messageTitle", "messageBody", "branchName", "branchDescription", "files"}
           \subseteq DOMAIN json
    THEN Ok([message_title |-> json.messageTitle, message_body |-> json.messageBody,
             branch_name |-> json.branchName,
             branch_description |-> json.branchDescription, files |-> json.files])
    ELSE Err("Failed to parse input parameters")

\* tool::result_to_json / tool::error_to_json: the envelope of a Result.
error_to_json(err, action_identifier) ==
    [status |-> "error", actionIdentifier |-> action_identifier, error |-> err]

result_to_json(result, action_identifier) ==
    IF result.kind = "Ok"
    THEN [status |-> "ok", actionIdentifier |-> action_identifier, data |-> result.val]
    ELSE error_to_json(result.err, action_identifier)

\* What a call of a function returns once its result is wrapped: a panic passes through.
Wrapped(done, value) ==
    Done(done.state, done.events,
         IF done.result.kind = "Panic" THEN done.result ELSE Ok(value))

\* <Commit as Tool>::call
Commit_call(S, parameters, app_handle, x) ==
    LET params == CommitParameters_from_value(parameters)
    IN  IF params.kind = "Err" THEN Done(S, <<>>, params)
        ELSE LET done == create_commit(S, app_handle, params.val, x)
             IN  Wrapped(done, result_to_json(done.result, "create_commit"))

CreateBranchParameters_from_value(json) ==
    IF {"branchName", "branchDescription"} \subseteq DOMAIN json
    THEN Ok([branch_name |-> json.branchName,
             branch_description |-> json.branchDescription])
    ELSE Err("Failed to parse input parameters")

AmendParameters_from_value(json) ==
    IF {"commitId", "messageTitle", "messageBody", "stackId", "files"} \subseteq DOMAIN json
    THEN Ok([commit_id |-> json.commitId, message_title |-> json.messageTitle,
             message_body |-> json.messageBody, stack_id |-> json.stackId,
             files |-> json.files])
    ELSE Err("Failed to parse input parameters")

\* filter_changes is an Option: it may be missing, and must be a list when given.
GetProjectStatusParameters_from_value(json) ==
    IF "filterChanges" \notin DOMAIN json THEN Ok([filter_changes |-> None])
    ELSE IF "list" \in DOMAIN json.filterChanges
    THEN Ok([filter_changes |-> Some(json.filterChanges.list)])
    ELSE Err("Failed to parse input parameters")

CreateBlankCommitParameters_from_value(json) ==
    IF {"messageTitle", "messageBody", "stackId", "parentId"} \subseteq DOMAIN json
    THEN Ok([message_title |-> json.messageTitle, message_body |-> json.messageBody,
             stack_id |-> json.stackId, parent_id |-> json.parentId])
    ELSE Err("Failed to parse input parameters")

MoveFileChangesParameters_from_value(json) ==
    IF {"sourceCommitId", "sourceStackId", "destinationCommitId", "destinationStackId",
        "files"} \subseteq DOMAIN json
    THEN Ok([source_commit_id |-> json.sourceCommitId,
             source_stack_id |-> json.sourceStackId,
             destination_commit_id |-> json.destinationCommitId,
             destination_stack_id |-> json.destinationStackId, files |-> json.files])
    ELSE Err("Failed to parse input parameters")

GetCommitDetailsParameters_from_value(json) ==
    IF "commitId" \in DOMAIN json
    THEN Ok([commit_id |-> json.commitId])
    ELSE Err("Failed to parse input parameters")

\* A JSON string as a tool returns it.
JsonString(text) == [string |-> text]

\* <CreateBranch as Tool>::call
CreateBranch_call(S, parameters, app_handle, x) ==
    LET params == CreateBranchParameters_from_value(parameters)
    IN  IF params.kind = "Err" THEN Done(S, <<>>, params)
        ELSE LET done == create_branch(S, app_handle, params.val, x)
             IN  Wrapped(done, result_to_json(done.result, "create branch"))

\* <Amend as Tool>::call
Amend_call(S, parameters, app_handle, x) ==
    LET params == AmendParameters_from_value(parameters)
    IN  IF params.kind = "Err" THEN Done(S, <<>>, params)
        ELSE LET done == amend_commit(S, app_handle, params.val, x)
             IN  Wrapped(done, result_to_json(done.result, "amend_commit"))

\* <GetProjectStatus as Tool>::call
GetProjectStatus_call(S, parameters, app_handle, x) ==
    IF x.fail = "gix_repo" THEN Done(S, <<>>, Err("gix_repo"))
    ELSE
    LET params == GetProjectStatusParameters_from_value(parameters)
    IN  IF params.kind = "Err" THEN Done(S, <<>>, params)
        ELSE LET done == get_project_status(S, params.val.filter_changes, x)
             IN  Wrapped(done, result_to_json(done.result, "get_project_status"))

\* <CreateBlankCommit as Tool>::call
CreateBlankCommit_call(S, parameters, app_handle, x) ==
    LET params == CreateBlankCommitParameters_from_value(parameters)
    IN  IF params.kind = "Err" THEN Done(S, <<>>, params)
        ELSE LET done == create_blank_commit(S, app_handle, params.val, x)
             IN  Wrapped(done, IF done.result.kind = "Ok" THEN JsonString("Suceess")
                               ELSE error_to_json(done.result.err, "create_blank_commit"))

\* <MoveFileChanges as Tool>::call
MoveFileChanges_call(S, parameters, app_handle, x) ==
    LET params == MoveFileChangesParameters_from_value(parameters)
    IN  IF params.kind = "Err" THEN Done(S, <<>>, params)
        ELSE LET done == move_file_changes(S, app_handle, params.val, x)
             IN  Wrapped(done, IF done.result.kind = "Ok" THEN JsonString("Success")
                               ELSE error_to_json(done.result.err, "move_file_changes"))

\* <GetCommitDetails as Tool>::call
GetCommitDetails_call(S, parameters, app_handle, x) ==
    LET params == GetCommitDetailsParameters_from_value(parameters)
    IN  IF params.kind = "Err" THEN Done(S, <<>>, params)
        ELSE LET done == commit_details(S, params.val, x)
             IN  Wrapped(done, result_to_json(done.result, "commit_details"))

\* Toolset::call_tool: what the calling agent gets for a call of a tool; a call
\* that failed is answered with the envelope of its error.
call_tool(returned) ==
    IF returned.kind = "Err" THEN error_to_json(returned.err, "call_tool") ELSE returned.val

\* The call of the tool of that name.
Tool_call(tool, S, parameters, app_handle, x) ==
    CASE tool = "commit" -> Commit_call(S, parameters, app_handle, x)
      [] tool = "create_branch" -> CreateBranch_call(S, parameters, app_handle, x)
      [] tool = "amend" -> Amend_call(S, parameters, app_handle, x)
      [] tool = "get_project_status" -> GetProjectStatus_call(S, parameters, app_handle, x)
      [] tool = "create_blank_commit" -> CreateBlankCommit_call(S, parameters, app_handle, x)
      [] tool = "move_file_changes" -> MoveFileChanges_call(S, parameters, app_handle, x)
      [] tool = "get_commit_details" -> GetCommitDetails_call(S, parameters, app_handle, x)

\* ------------------------------------------------------------ the state machine

AppHandles == {None, Some("delivers"), Some("fails")}

\* The outcomes drawn for the collaborators of one call.
Outcomes(fail_points) ==
    [fail : {"none"} \cup fail_points, snapshot_ok : {TRUE}, record_ok : {TRUE}]

\* The same, and whether taking the snapshot and recording its outcome work.
OutcomesWithSnapshot(fail_points, engine) ==
    Outcomes(fail_points) \cup
    {x \in [fail : {"none", engine}, snapshot_ok : BOOLEAN, record_ok : BOOLEAN] :
        ~x.snapshot_ok => x.record_ok}

HasEvent(events, op) == \E k \in 1..Len(events) : events[k].op = op

EventOf(events, op) == events[CHOOSE k \in 1..Len(events) : events[k].op = op]

\* The step a call failed at, as its result tells it ("none": it did not fail).
FailedStep(done) ==
    CASE done.result.kind = "Err" -> done.result.err
      [] done.result.kind = "Panic" -> "create_virtual_branch"
      [] OTHER -> IF "status" \in DOMAIN done.result.val /\ done.result.val.status = "error"
                  THEN done.result.val.error
                  ELSE "none"

\* The drawn failure happened in this call (a draw for a step the call never
\* reached gives the call another draw gives too).
Effective(x, done) ==
    /\ x.fail # "none" => x.fail = FailedStep(done)
    /\ ~x.snapshot_ok => HasEvent(done.events, "prepare_snapshot")
    /\ ~x.record_ok => HasEvent(done.events, "snapshot_commit_creation")

\* The handle given was used (a call that never reaches its notification does
\* with a handle what it does without one).
Notified(app_handle, done) ==
    IsSome(app_handle) => HasEvent(done.events, "emit_stack_update")

Cur == State(vb_state, commits, worktree, next_oid, next_stack_id)

\* The callers that may have a call in progress at the same time.
Callers == {1, 2}

\* A caller with no call in progress.
IdleCall ==
    [tool |-> "none", pc |-> "idle", params |-> None, file_changes |-> <<>>,
     stack_id |-> 0, during |-> {}, result |-> Ok("none")]

NoCall ==
    [tool |-> "none", parameters |-> [none |-> TRUE], app_handle |-> None,
     x |-> [fail |-> "none", snapshot_ok |-> TRUE, record_ok |-> TRUE],
     pre |-> None, events |-> <<>>, returned |-> Ok("none")]

Init ==
    /\ vb_state = <<Stack(1, TRUE, <<Branch("m", None, FALSE, <<1, 2>>),
                                     Branch("a", Some("d1"), FALSE, <<>>)>>),
                    Stack(2, FALSE, <<Branch("u", None, FALSE, <<>>)>>)>>
    /\ commits = (1 :> CommitObject(<<"I">>, {"e"})) @@ (2 :> CommitObject(<<"J">>, {}))
    /\ worktree = AllPaths
    /\ next_oid = 3
    /\ next_stack_id = 3
    /\ last = NoCall
    /\ exclusive_worktree_access = 0
    /\ calls = [c \in Callers |-> IdleCall]

\* The call is taken and the workspace is what it left.
Apply(tool, parameters, app_handle, x, done) ==
    /\ last.tool = "none"
    /\ Effective(x, done)
    /\ Notified(app_handle, done)
    /\ done.state.next_oid <= MaxOid + 1
    /\ Len(done.state.vb) <= MaxStacks
    /\ vb_state' = done.state.vb
    /\ commits' = done.state.commits
    /\ worktree' = done.state.worktree
    /\ next_oid' = done.state.next_oid
    /\ next_stack_id' = done.state.next_stack_id
    /\ last' = [tool |-> tool, parameters |-> parameters, app_handle |-> app_handle,
                x |-> x, pre |-> Cur, events |-> done.events, returned |-> done.result]
    /\ UNCHANGED <<exclusive_worktree_access, calls>>

CommitInputs ==
    {[messageTitle |-> <<"T">>]} \cup
    [messageTitle : Titles, messageBody : Bodies, branchName : BranchNames,
     branchDescription : Descriptions, files : {<<"f", "h">>}]

CommitFailPoints ==
    {"gix_repo", "worktree_changes", "stacks", "create_virtual_branch", "get_stack",
     "update_branch", "create_commit_simple"}

Commit ==
    \E parameters \in CommitInputs, app_handle \in AppHandles,
       x \in OutcomesWithSnapshot(CommitFailPoints, "create_commit_simple") :
        Apply("commit", parameters, app_handle, x,
              Commit_call(Cur, parameters, app_handle, x))

\* The caller has the result of the call; the next call can be made.
Return ==
    /\ last.tool # "none"
    /\ last' = NoCall
    /\ UNCHANGED <<vb_state, commits, worktree, next_oid, next_stack_id,
                   exclusive_worktree_access, calls>>

CreateBranchInputs ==
    {[branchName |-> "a"]} \cup
    [branchName : BranchNames, branchDescription : Descriptions]

CreateBranchFailPoints == {"create_virtual_branch", "get_stack", "update_branch"}

CreateBranch ==
    \E parameters \in CreateBranchInputs, app_handle \in AppHandles,
       x \in Outcomes(CreateBranchFailPoints) :
        Apply("create_branch", parameters, app_handle, x,
              CreateBranch_call(Cur, parameters, app_handle, x))

\* The (stack id, commit id) texts a caller names a commit with: texts that do
\* not parse or name no commit of the stack, and the commits of the stacks.
BadRefs == {<<Junk, OidText(1)>>, <<StackIdText(1), Junk>>, <<StackIdText(2), OidText(1)>>}

CommitRefs ==
    UNION {{<<StackIdText(vb_state[i].id), OidText(o)>> : o \in Range(Chain(vb_state[i]))} :
                  i \in 1..Len(vb_state)}

AmendInputs ==
    {[commitId |-> OidText(1)]} \cup
    {[commitId |-> ref[2], stackId |-> ref[1], messageTitle |-> title,
      messageBody |-> body, files |-> files] :
        ref \in CommitRefs, title \in NewTitles, body \in Bodies, files \in FileSelections}
    \cup
    {[commitId |-> ref[2], stackId |-> ref[1], messageTitle |-> title,
      messageBody |-> body, files |-> <<>>] :
        ref \in BadRefs, title \in NewTitles, body \in Bodies}

AmendFailPoints ==
    {"gix_repo", "worktree_changes", "create_commit_and_update_refs_with_project"}

Amend ==
    \E parameters \in AmendInputs, app_handle \in AppHandles,
       x \in Outcomes(AmendFailPoints) :
        Apply("amend", parameters, app_handle, x,
              Amend_call(Cur, parameters, app_handle, x))

GetProjectStatusInputs ==
    {[filterChanges |-> JsonString("f")], [none |-> TRUE],
     [filterChanges |-> [list |-> <<"f", "h">>]]}

GetProjectStatusFailPoints ==
    {"gix_repo", "stacks", "get_stack", "local_and_remote_commits", "worktree_changes",
     "unified_diff", "assignments_with_fallback"}

GetProjectStatus ==
    \E parameters \in GetProjectStatusInputs, x \in Outcomes(GetProjectStatusFailPoints) :
        Apply("get_project_status", parameters, None, x,
              GetProjectStatus_call(Cur, parameters, None, x))

CreateBlankCommitInputs ==
    {[stackId |-> StackIdText(1)]} \cup
    {[messageTitle |-> title, messageBody |-> body, stackId |-> ref[1], parentId |-> ref[2]] :
        ref \in CommitRefs \cup BadRefs, title \in NewTitles, body \in Bodies}

CreateBlankCommitFailPoints == {"insert_blank_commit"}

CreateBlankCommit ==
    \E parameters \in CreateBlankCommitInputs, app_handle \in AppHandles,
       x \in Outcomes(CreateBlankCommitFailPoints) :
        Apply("create_blank_commit", parameters, app_handle, x,
              CreateBlankCommit_call(Cur, parameters, app_handle, x))

MovedFiles == {<<"e", "f">>}

MoveFileChangesInputs ==
    {[files |-> <<>>]} \cup
    {[sourceCommitId |-> from[2], sourceStackId |-> from[1],
      destinationCommitId |-> to[2], destinationStackId |-> to[1], files |-> files] :
        from \in CommitRefs, to \in CommitRefs, files \in MovedFiles}
    \cup
    {[sourceCommitId |-> ref[2], sourceStackId |-> ref[1],
      destinationCommitId |-> OidText(1), destinationStackId |-> StackIdText(1),
      files |-> <<>>] : ref \in BadRefs}
    \cup
    {[sourceCommitId |-> OidText(1), sourceStackId |-> StackIdText(1),
      destinationCommitId |-> ref[2], destinationStackId |-> ref[1],
      files |-> <<>>] : ref \in BadRefs}

MoveFileChangesFailPoints == {"move_changes_between_commits", "update_workspace_commit"}

MoveFileChanges ==
    \E parameters \in MoveFileChangesInputs, app_handle \in AppHandles,
       x \in Outcomes(MoveFileChangesFailPoints) :
        Apply("move_file_changes", parameters, app_handle, x,
              MoveFileChanges_call(Cur, parameters, app_handle, x))

GetCommitDetailsInputs ==
    {[none |-> TRUE]} \cup {[commitId |-> text] : text \in {Junk} \cup {OidText(o) : o \in 1..2}}

GetCommitDetailsFailPoints == {"gix_repo", "commit_changes_by_worktree_dir", "unified_diff"}

GetCommitDetails ==
    \E parameters \in GetCommitDetailsInputs, x \in Outcomes(GetCommitDetailsFailPoints) :
        Apply("get_commit_details", parameters, None, x,
              GetCommitDetails_call(Cur, parameters, None, x))

Next ==
    \/ Commit
    \/ CreateBranch
    \/ Amend
    \/ GetProjectStatus
    \/ CreateBlankCommit
    \/ MoveFileChanges
    \/ GetCommitDetails
    \/ Return

Spec == Init /\ [][Next]_vars

\* -------------------------------------------------- calls running concurrently
\* The same functions, one step at a time, for callers that run at the same
\* time on the same project.  A step is one call on a collaborator.  Each
\* caller makes one call.  A collaborator that is handed no permission
\* (insert_blank_commit, move_changes_between_commits, update_workspace_commit,
\* and the reading ones) is taken to wait for the guard to be free and to run
\* as one step.

NoFailure == [fail |-> "none", snapshot_ok |-> TRUE, record_ok |-> TRUE]

\* The calls the concurrent callers make, parameters parsed.
ConcurrentCalls ==
    {[tool |-> "commit",
      params |-> [message_title |-> <<"T">>, message_body |-> <<"B">>, branch_name |-> name,
                  branch_description |-> "d2", files |-> <<"f">>]] : name \in {"m", "c", "u"}}
    \cup
    {[tool |-> "create_branch",
      params |-> [branch_name |-> "c", branch_description |-> "d2"]],
     [tool |-> "amend",
      params |-> [commit_id |-> OidText(2), message_title |-> <<"U">>,
                  message_body |-> <<"B">>, stack_id |-> StackIdText(1), files |-> <<"g">>]],
     [tool |-> "create_blank_commit",
      params |-> [message_title |-> <<"U">>, message_body |-> <<"B">>,
                  stack_id |-> StackIdText(1), parent_id |-> OidText(2)]],
     [tool |-> "move_file_changes",
      params |-> [source_commit_id |-> OidText(1), source_stack_id |-> StackIdText(1),
                  destination_commit_id |-> OidText(2),
                  destination_stack_id |-> StackIdText(1), files |-> <<"e">>]],
     [tool |-> "get_project_status", params |-> [filter_changes |-> None]],
     [tool |-> "get_commit_details", params |-> [commit_id |-> OidText(1)]]}

\* The first step of each function.
FirstStep(tool) ==
    CASE tool \in {"commit", "create_branch", "amend"} -> "exclusive_worktree_access"
      [] tool = "create_blank_commit" -> "insert_blank_commit"
      [] tool = "move_file_changes" -> "move_changes_between_commits"
      [] tool = "get_project_status" -> "stacks"
      [] tool = "get_commit_details" -> "commit_changes_by_worktree_dir"

\* The caller is in a mutating function, past its first step and not yet returned.
Midway(c) ==
    /\ calls[c].tool \in {"commit", "create_branch", "amend", "create_blank_commit",
                          "move_file_changes"}
    /\ calls[c].pc \notin {FirstStep(calls[c].tool), "returned"}

At(c, tool, pc) == calls[c].tool = tool /\ calls[c].pc = pc

SetState(S) ==
    /\ vb_state' = S.vb
    /\ commits' = S.commits
    /\ worktree' = S.worktree
    /\ next_oid' = S.next_oid
    /\ next_stack_id' = S.next_stack_id

SameState == UNCHANGED <<vb_state, commits, worktree, next_oid, next_stack_id>>

\* A caller calls a tool's function.
Call(c) ==
    /\ calls[c].pc = "idle"
    /\ \E call \in ConcurrentCalls :
           calls' = [calls EXCEPT ![c] = [IdleCall EXCEPT !.tool = call.tool,
                                                          !.params = call.params,
                                                          !.pc = FirstStep(call.tool)]]
    /\ SameState
    /\ UNCHANGED <<exclusive_worktree_access, last>>

\* The guard handed to a caller while another holds it.
Lock_without_waiting(c) ==
    /\ calls[c].tool \in {"commit", "create_branch", "amend"}
    /\ calls[c].pc = "exclusive_worktree_access"
    /\ exclusive_worktree_access' = c
    /\ calls' = [calls EXCEPT ![c].pc = IF calls[c].tool = "create_branch"
                                        THEN "create_virtual_branch" ELSE "worktree_changes"]
    /\ SameState
    /\ UNCHANGED last

\* let mut guard = ctx.project().exclusive_worktree_access(): waits for the guard.
Lock(c) ==
    /\ calls[c].tool \in {"commit", "create_branch", "amend"}
    /\ calls[c].pc = "exclusive_worktree_access"
    /\ exclusive_worktree_access = 0
    /\ exclusive_worktree_access' = c
    /\ calls' = [calls EXCEPT ![c].pc = IF calls[c].tool = "create_branch"
                                        THEN "create_virtual_branch" ELSE "worktree_changes"]
    /\ SameState
    /\ UNCHANGED last

\* The function returns (or unwinds): the guard it holds is dropped.
Unlock(c) ==
    /\ calls[c].pc = "drop"
    /\ exclusive_worktree_access = c
    /\ exclusive_worktree_access' = 0
    /\ calls' = [calls EXCEPT ![c].pc = "returned"]
    /\ SameState
    /\ UNCHANGED last

\* The steps of create_commit under its guard.
CommitStep(c) ==
    /\ calls[c].tool = "commit"
    /\ exclusive_worktree_access = c
    /\ UNCHANGED <<exclusive_worktree_access, last>>
    /\ \/ /\ calls[c].pc = "worktree_changes"
          /\ calls' = [calls EXCEPT ![c].file_changes =
                                        FilterChanges(worktree, calls[c].params.files),
                                    ![c].pc = "stacks"]
          /\ SameState
       \/ /\ calls[c].pc = "stacks"
          /\ LET found == FindStackId(stacks(Cur), calls[c].params.branch_name)
             IN  calls' = [calls EXCEPT ![c].stack_id = IF IsSome(found) THEN found.some ELSE 0,
                                        ![c].pc = IF IsSome(found) THEN "update_branch"
                                                  ELSE "create_virtual_branch"]
          /\ SameState
       \/ /\ calls[c].pc = "create_virtual_branch"
          /\ LET created == create_virtual_branch(Cur, calls[c].params.branch_name, TRUE)
             IN  IF created.result.kind = "Err"
                 THEN /\ calls' = [calls EXCEPT ![c].pc = "drop",
                                                ![c].result =
                                                    Panic("Failed to create virtual branch")]
                      /\ SameState
                 ELSE /\ calls' = [calls EXCEPT ![c].stack_id = created.result.val,
                                                ![c].pc = "update_branch"]
                      /\ SetState(created.state)
       \/ /\ calls[c].pc = "update_branch"
          /\ LET updated == update_branch(Cur, calls[c].stack_id, calls[c].params.branch_name,
                                          DescriptionUpdate(calls[c].params.branch_description),
                                          TRUE)
             IN  /\ calls' = [calls EXCEPT ![c].pc = IF updated.result.kind = "Err" THEN "drop"
                                                     ELSE "create_commit_simple",
                                           ![c].result = updated.result]
                 /\ SetState(updated.state)
       \/ /\ calls[c].pc = "create_commit_simple"
          /\ LET engine == create_commit_simple(
                               Cur, calls[c].stack_id, calls[c].file_changes,
                               ComposeMessage(calls[c].params.message_title,
                                              calls[c].params.message_body),
                               calls[c].params.branch_name, TRUE)
             IN  /\ calls' = [calls EXCEPT ![c].pc = "drop",
                                           ![c].result = CommitResult(NoFailure, engine.result)]
                 /\ SetState(engine.state)

\* The steps of create_branch under its guard.
CreateBranchStep(c) ==
    /\ calls[c].tool = "create_branch"
    /\ exclusive_worktree_access = c
    /\ UNCHANGED <<exclusive_worktree_access, last>>
    /\ \/ /\ calls[c].pc = "create_virtual_branch"
          /\ LET created == create_virtual_branch(Cur, calls[c].params.branch_name, TRUE)
             IN  /\ calls' = [calls EXCEPT ![c].stack_id = IF created.result.kind = "Ok"
                                                           THEN created.result.val ELSE 0,
                                           ![c].pc = IF created.result.kind = "Ok"
                                                     THEN "update_branch" ELSE "drop",
                                           ![c].result = created.result]
                 /\ SetState(created.state)
       \/ /\ calls[c].pc = "update_branch"
          /\ LET updated == update_branch(Cur, calls[c].stack_id, calls[c].params.branch_name,
                                          DescriptionUpdate(calls[c].params.branch_description),
                                          TRUE)
             IN  /\ calls' = [calls EXCEPT ![c].pc = "drop", ![c].result = updated.result]
                 /\ SetState(updated.state)

\* The steps of amend_commit_inner under its guard.
AmendStep(c) ==
    /\ calls[c].tool = "amend"
    /\ exclusive_worktree_access = c
    /\ UNCHANGED <<exclusive_worktree_access, last>>
    /\ \/ /\ calls[c].pc = "worktree_changes"
          /\ calls' = [calls EXCEPT ![c].file_changes =
                                        FilterChanges(worktree, calls[c].params.files),
                                    ![c].stack_id = StackId_from_str(calls[c].params.stack_id).val,
                                    ![c].pc = "create_commit_and_update_refs_with_project"]
          /\ SameState
       \/ /\ calls[c].pc = "create_commit_and_update_refs_with_project"
          /\ LET engine == create_commit_and_update_refs_with_project(
                               Cur, calls[c].stack_id,
                               ObjectId_from_str(calls[c].params.commit_id).val,
                               Some(ComposeMessage(calls[c].params.message_title,
                                                   calls[c].params.message_body)),
                               calls[c].file_changes, TRUE)
             IN  /\ calls' = [calls EXCEPT ![c].pc = "drop", ![c].result = engine.result]
                 /\ SetState(engine.state)

\* The one step of create_blank_commit: no guard is taken by the function.
CreateBlankCommitStep(c) ==
    /\ At(c, "create_blank_commit", "insert_blank_commit")
    /\ exclusive_worktree_access = 0
    /\ LET inserted == insert_blank_commit(
                           Cur, StackId_from_str(calls[c].params.stack_id).val,
                           ObjectId_from_str(calls[c].params.parent_id).val,
                           ComposeMessage(calls[c].params.message_title,
                                          calls[c].params.message_body), TRUE)
       IN  /\ calls' = [calls EXCEPT ![c].pc = "returned", ![c].result = inserted.result]
           /\ SetState(inserted.state)
    /\ UNCHANGED <<exclusive_worktree_access, last>>

\* The two steps of move_file_changes: no guard is taken by the function.
MoveFileChangesStep(c) ==
    /\ calls[c].tool = "move_file_changes"
    /\ exclusive_worktree_access = 0
    /\ UNCHANGED <<exclusive_worktree_access, last>>
    /\ \/ /\ calls[c].pc = "move_changes_between_commits"
          /\ LET p == calls[c].params
                 moved == move_changes_between_commits(
                              Cur, StackId_from_str(p.source_stack_id).val,
                              ObjectId_from_str(p.source_commit_id).val,
                              StackId_from_str(p.destination_stack_id).val,
                              ObjectId_from_str(p.destination_commit_id).val,
                              [k \in 1..Len(p.files) |-> DiffSpec(p.files[k])], TRUE)
             IN  /\ calls' = [calls EXCEPT ![c].pc = IF moved.result.kind = "Ok"
                                                     THEN "update_workspace_commit"
                                                     ELSE "returned",
                                           ![c].result =
                                               IF moved.result.kind = "Ok"
                                               THEN Ok(moved.result.val.replaced_commits)
                                               ELSE moved.result]
                 /\ SetState(moved.state)
       \/ /\ calls[c].pc = "update_workspace_commit"
          /\ calls' = [calls EXCEPT ![c].pc = "returned"]
          /\ SetState(update_workspace_commit(Cur, TRUE).state)

\* The mutating calls that are midway while caller c reads.
MidwayBeside(c) == {w \in Callers \ {c} : Midway(w)}

\* The steps of get_project_status: no guard is taken by the function.
GetProjectStatusStep(c) ==
    /\ calls[c].tool = "get_project_status"
    /\ exclusive_worktree_access = 0
    /\ SameState
    /\ UNCHANGED <<exclusive_worktree_access, last>>
    /\ \/ /\ calls[c].pc = "stacks"
          /\ calls' = [calls EXCEPT
                          ![c].pc = "worktree_changes",
                          ![c].during = @ \cup MidwayBeside(c),
                          ![c].result = entries_to_simple_stacks(Cur, stacks(Cur), NoFailure)]
       \/ /\ calls[c].pc = "worktree_changes"
          /\ LET file_changes == get_filtered_changes(Cur, calls[c].params.filter_changes,
                                                      NoFailure)
             IN  calls' = [calls EXCEPT
                              ![c].pc = "returned",
                              ![c].during = @ \cup MidwayBeside(c),
                              ![c].result = Ok([stacks |-> calls[c].result.val,
                                                file_changes |-> file_changes.val])]

\* The one step of commit_details: no guard is taken by the function.
GetCommitDetailsStep(c) ==
    /\ At(c, "get_commit_details", "commit_changes_by_worktree_dir")
    /\ exclusive_worktree_access = 0
    /\ calls' = [calls EXCEPT ![c].pc = "returned",
                              ![c].during = @ \cup MidwayBeside(c),
                              ![c].result = commit_details(Cur, calls[c].params, NoFailure).result]
    /\ SameState
    /\ UNCHANGED <<exclusive_worktree_access, last>>

NextConcurrent ==
    \E c \in Callers :
        \/ Call(c)
        \/ Lock(c)
        \/ Unlock(c)
        \/ CommitStep(c)
        \/ CreateBranchStep(c)
        \/ AmendStep(c)
        \/ CreateBlankCommitStep(c)
        \/ MoveFileChangesStep(c)
        \/ GetProjectStatusStep(c)
        \/ GetCommitDetailsStep(c)

SpecConcurrent == Init /\ [][NextConcurrent]_vars

\* ---------------------------------------------------------------- the views
\* The two reading tools on workspaces of every shape: branches archived or
\* not, with or without commits, stacks in the workspace or not; commit
\* messages of every form; changes the diff engine gives every form for.

ViewCommits ==
    <<CommitObject(<<"I">>, {"e"}), CommitObject(<<"J">>, {}),
      CommitObject(<<"K">>, {}), CommitObject(<<"L">>, {})>>

ViewWorkspaces ==
    {<<Stack(1, TRUE, <<Branch("m", None, am, cm), Branch("a", Some("d1"), aa, ca)>>),
       Stack(2, w, <<Branch("u", None, au, cu)>>)>> :
        am \in BOOLEAN, aa \in BOOLEAN, au \in BOOLEAN, w \in BOOLEAN,
        cm \in {<<>>, <<1, 2>>}, ca \in {<<>>, <<3>>}, cu \in {<<>>, <<4>>}}

ViewWorkspace ==
    <<Stack(1, TRUE, <<Branch("m", None, FALSE, <<1, 2>>),
                       Branch("a", Some("d1"), FALSE, <<>>)>>),
      Stack(2, FALSE, <<Branch("u", None, FALSE, <<>>)>>)>>

ViewTitles == {<<>>, <<"T">>, <<SP, "T", NL>>, <<"T", NL, "U">>}
ViewBodies == {<<>>, <<"B">>, <<NL, "B", SP>>, <<"B", NL, NL, "C">>, <<"B", CR, NL, "C">>}

MaxMessageLen == 4

ViewMessages ==
    UNION {[1..n -> {"T", NL, CR}] : n \in 0..MaxMessageLen}
    \cup {ComposeMessage(title, body) : title \in ViewTitles, body \in ViewBodies}

ViewWorktrees == {<<>>, <<"f", "b", "g">>, <<"l", "f">>, <<"b", "l">>, <<"s", "f">>, <<"f", "s">>}
ViewFiles == {{}, {"e", "f"}, {"e", "b"}, {"l"}, {"e", "s"}}

ViewStates ==
    {State(vb, ViewCommits, AllPaths, 5, 3) : vb \in ViewWorkspaces}
    \cup {State(ViewWorkspace, [ViewCommits EXCEPT ![1].message = message], AllPaths, 5, 3) :
             message \in ViewMessages}
    \cup {State(ViewWorkspace, [ViewCommits EXCEPT ![1].files = files], wt, 5, 3) :
             wt \in ViewWorktrees, files \in ViewFiles}

InitViews ==
    /\ \E S \in ViewStates :
           /\ vb_state = S.vb
           /\ commits = S.commits
           /\ worktree = S.worktree
           /\ next_oid = S.next_oid
           /\ next_stack_id = S.next_stack_id
    /\ last = NoCall
    /\ exclusive_worktree_access = 0
    /\ calls = [c \in Callers |-> IdleCall]

NextViews ==
    \/ GetProjectStatus
    \/ GetCommitDetails
    \/ Return

SpecViews == InitViews /\ [][NextViews]_vars

\* ------------------------------------------------------------------ claims
\* The properties are stated on the last call: what it was asked (last.parameters,
\* last.app_handle), the workspace it started from (last.pre), the calls it made
\* on its collaborators (last.events), what it returned (last.returned) and the
\* workspace it left (the variables).

\* The parameters of a call as its tool parses them.
Parsed(tool, json) ==
    CASE tool = "commit" -> CommitParameters_from_value(json)
      [] tool = "create_branch" -> CreateBranchParameters_from_value(json)
      [] tool = "amend" -> AmendParameters_from_value(json)
      [] tool = "get_project_status" -> GetProjectStatusParameters_from_value(json)
      [] tool = "create_blank_commit" -> CreateBlankCommitParameters_from_value(json)
      [] tool = "move_file_changes" -> MoveFileChangesParameters_from_value(json)
      [] tool = "get_commit_details" -> GetCommitDetailsParameters_from_value(json)

Called(tools) == last.tool \in tools /\ Parsed(last.tool, last.parameters).kind = "Ok"

ParseFailed == last.tool # "none" /\ Parsed(last.tool, last.parameters).kind = "Err"

Params == Parsed(last.tool, last.parameters).val

\* The positions in last.events of the calls of these collaborators.
EventsAt(ops) == {k \in 1..Len(last.events) : last.events[k].op \in ops}

\* The stacks of the workspace with a branch of that name.
InWorkspaceWithHead(S, name) ==
    {i \in 1..Len(S.vb) : S.vb[i].in_workspace /\ HasHead(S.vb[i], name)}

\* C1: a commit call whose branch_name names a branch of a stack already in the
\* workspace creates no stack, and the stack id it gives to the description
\* update, to the engine and to the notification is the id of that stack.
C1_ExistingStackReused ==
    (Called({"commit"}) /\ InWorkspaceWithHead(last.pre, Params.branch_name) # {}) =>
        /\ EventsAt({"create_virtual_branch"}) = {}
        /\ Len(vb_state) = Len(last.pre.vb)
        /\ \A k \in EventsAt({"update_branch", "create_commit_simple", "emit_stack_update"}) :
               \E i \in InWorkspaceWithHead(last.pre, Params.branch_name) :
                   last.events[k].stack_id = last.pre.vb[i].id

\* A commit on a branch the workspace had went through its description update,
\* its engine call and its notification.
C1_Witness ==
    /\ Called({"commit"})
    /\ InWorkspaceWithHead(last.pre, Params.branch_name) # {}
    /\ EventsAt({"update_branch"}) # {}
    /\ EventsAt({"create_commit_simple"}) # {}
    /\ EventsAt({"emit_stack_update"}) # {}

\* The branch of that name has that description.
Described(vb, name, description) ==
    \E i \in 1..Len(vb) : \E h \in 1..Len(vb[i].heads) :
        /\ vb[i].heads[h].name = name
        /\ IsSome(vb[i].heads[h].description)
        /\ vb[i].heads[h].description.some = description

\* The description update of the call was made and went through.
DescriptionUpdated ==
    \E k \in EventsAt({"update_branch"}) : last.events[k].ok

Mutations ==
    {"create_virtual_branch", "update_branch", "create_commit_simple",
     "create_commit_and_update_refs_with_project", "insert_blank_commit",
     "move_changes_between_commits", "update_workspace_commit"}

\* C3: a commit, amend, create_blank_commit or move_file_changes call takes a
\* snapshot before the first change it makes to the workspace, and, where the
\* snapshot was taken, records the outcome against it after the last.
C3_SnapshotAroundMutation ==
    (last.tool \in {"commit", "amend", "create_blank_commit", "move_file_changes"}) =>
        \A k \in EventsAt(Mutations) :
            /\ \E j \in EventsAt({"prepare_snapshot"}) : j < k
            /\ (\E j \in EventsAt({"prepare_snapshot"}) : last.events[j].ok) =>
                   \E j \in EventsAt({"snapshot_commit_creation"}) : j > k

\* C4: in commit, once the snapshot step is reached the engine is called
\* whether or not the snapshot was taken and its outcome recorded, and the
\* result and the workspace are those of the same call with a snapshot that
\* worked: the envelope of the engine's outcome.
C4_SnapshotFailureSwallowed ==
    (last.tool = "commit" /\ EventsAt({"prepare_snapshot"}) # {}) =>
        LET unfailing == Commit_call(last.pre, last.parameters, last.app_handle,
                                     [last.x EXCEPT !.snapshot_ok = TRUE, !.record_ok = TRUE])
        IN  /\ EventsAt({"create_commit_simple"}) # {}
            /\ \A k \in EventsAt({"create_commit_simple"}) :
                   /\ \E j \in EventsAt({"prepare_snapshot"}) : j < k
                   /\ last.returned.kind = "Ok"
                   /\ last.returned.val.status = (IF last.events[k].ok THEN "ok" ELSE "error")
            /\ last.returned = unfailing.result
            /\ Cur = unfailing.state

\* A commit whose snapshot could not be taken was made and answered with ok.
C4_Witness ==
    /\ last.tool = "commit"
    /\ ~last.x.snapshot_ok
    /\ \E k \in EventsAt({"create_commit_simple"}) : last.events[k].ok
    /\ last.returned.kind = "Ok"
    /\ last.returned.val.status = "ok"
    /\ next_oid > last.pre.next_oid

MutatingTools ==
    {"commit", "create_branch", "amend", "create_blank_commit", "move_file_changes"}

\* C5: what a mutating call returns and the workspace it leaves are the same
\* with no notifier, with a notifier that delivers and with one that fails.
C5_NotifierIndependence ==
    (last.tool \in MutatingTools) =>
        \A app_handle \in AppHandles :
            LET other == Tool_call(last.tool, last.pre, last.parameters, app_handle, last.x)
            IN  /\ other.result = last.returned
                /\ other.state = Cur

\* A mutating call notified a notifier that failed, and succeeded.
C5_Witness ==
    /\ last.tool \in MutatingTools
    /\ \E k \in EventsAt({"emit_stack_update"}) : ~last.events[k].delivered
    /\ last.returned.kind = "Ok"
    /\ \/ "string" \in DOMAIN last.returned.val
       \/ last.returned.val.status = "ok"
    /\ Cur # last.pre

\* C6: a call whose parameters do not parse does nothing (no collaborator is
\* called, the workspace is as it was) and is answered with an error whose
\* detail is the parameter error.
C6_ParseFailureHasNoEffect ==
    ParseFailed =>
        /\ last.events = <<>>
        /\ Cur = last.pre
        /\ LET answer == call_tool(last.returned)
           IN  /\ "status" \in DOMAIN answer
               /\ answer.status = "error"
               /\ answer.error = "Failed to parse input parameters"

\* The last call failed somewhere: at its parameters, or in its function.
Failed ==
    \/ ParseFailed
    \/ \E k \in 1..Len(last.events) :
           "ok" \in DOMAIN last.events[k] /\ ~last.events[k].ok
    \/ /\ Called({"create_blank_commit"})
       /\ create_blank_commit(last.pre, last.app_handle, Params, last.x).result.kind = "Err"
    \/ /\ Called({"move_file_changes"})
       /\ move_file_changes(last.pre, last.app_handle, Params, last.x).result.kind = "Err"

\* C7: a create_blank_commit or move_file_changes call never fails hard; a
\* failure anywhere in it, the parsing of its parameters included, is
\* returned as an error envelope.
C7_FailuresAreEnvelopes ==
    (last.tool \in {"create_blank_commit", "move_file_changes"}) =>
        /\ last.returned.kind = "Ok"
        /\ Failed => /\ "status" \in DOMAIN last.returned.val
                     /\ last.returned.val.status = "error"

\* The files of the commits of a stack, oldest first.
FilesAlong(S, stack_id) ==
    LET chain == Chain(S.vb[StackIndex(S.vb, stack_id)])
    IN  [k \in 1..Len(chain) |-> S.commits[chain[k]].files]

\* C8: an amend call with an empty files selection hands the engine no
\* change, whatever changes are pending; where the engine succeeds the
\* amended commit has the new message and the files of the original, every
\* commit of the stack keeps its files and the pending changes stay pending.
C8_EmptySelectionAmend ==
    (Called({"amend"}) /\ Params.files = <<>>) =>
        \A k \in EventsAt({"create_commit_and_update_refs_with_project"}) :
            LET call == last.events[k]
            IN  /\ call.changes = <<>>
                /\ call.ok =>
                       LET new == last.returned.val.data.new_commit.some
                       IN  /\ commits[new].files = last.pre.commits[call.commit_id].files
                           /\ commits[new].message =
                                  ComposeMessage(Params.message_title, Params.message_body)
                           /\ FilesAlong(Cur, call.stack_id) =
                                  FilesAlong(last.pre, call.stack_id)
                           /\ worktree = last.pre.worktree

\* A commit was amended with an empty selection while changes were pending,
\* and got another message.
C8_Witness ==
    /\ Called({"amend"})
    /\ Params.files = <<>>
    /\ last.pre.worktree # <<>>
    /\ \E k \in EventsAt({"create_commit_and_update_refs_with_project"}) :
           /\ last.events[k].ok
           /\ last.pre.commits[last.events[k].commit_id].files # {}
           /\ last.pre.commits[last.events[k].commit_id].message #
                  ComposeMessage(Params.message_title, Params.message_body)

\* The commits of the stack that are on commit oid.
Above(S, stack_id, oid) ==
    LET chain == Chain(S.vb[StackIndex(S.vb, stack_id)])
    IN  {chain[k] : k \in (IndexOf(chain, oid) + 1)..Len(chain)}

NoPairOfEquals(pairs) == \A k \in 1..Len(pairs) : pairs[k][1] # pairs[k][2]

\* What the function of the last create_blank_commit / move_file_changes call returned.
BlankCommitResult == create_blank_commit(last.pre, last.app_handle, Params, last.x).result

MoveResult == move_file_changes(last.pre, last.app_handle, Params, last.x).result

\* C9: the list create_blank_commit returns has one pair for the inserted
\* commit and one for each commit on the insertion point; the list
\* move_file_changes returns has one pair for each commit that is the source,
\* the destination, or on one of them; no pair maps an id to itself.
C9_RemapList ==
    /\ (Called({"create_blank_commit"}) /\ BlankCommitResult.kind = "Ok") =>
           /\ Len(BlankCommitResult.val) =
                  1 + Cardinality(Above(last.pre, StackId_from_str(Params.stack_id).val,
                                        ObjectId_from_str(Params.parent_id).val))
           /\ NoPairOfEquals(BlankCommitResult.val)
    /\ (Called({"move_file_changes"}) /\ MoveResult.kind = "Ok") =>
           LET source == ObjectId_from_str(Params.source_commit_id).val
               destination == ObjectId_from_str(Params.destination_commit_id).val
               affected ==
                   {source, destination}
                   \cup Above(last.pre, StackId_from_str(Params.source_stack_id).val, source)
                   \cup Above(last.pre, StackId_from_str(Params.destination_stack_id).val,
                              destination)
           IN  /\ Len(MoveResult.val) = Cardinality(affected)
               /\ NoPairOfEquals(MoveResult.val)

\* A blank commit was put between two commits: the list has a pair for it and
\* one for the commit on it.
C9_Witness ==
    /\ Called({"create_blank_commit"})
    /\ BlankCommitResult.kind = "Ok"
    /\ Len(BlankCommitResult.val) >= 2
    /\ \A k \in 1..Len(BlankCommitResult.val) :
           BlankCommitResult.val[k][2] \in Range(Chain(vb_state[StackIndex(vb_state,
               StackId_from_str(Params.stack_id).val)]))

\* C10: where create_blank_commit or move_file_changes succeeds, what the
\* tool delivers is an envelope of status ok whose data is the list of
\* (old id, new id) pairs the function returned.
C10_RemapListDelivered ==
    /\ (Called({"create_blank_commit"}) /\ BlankCommitResult.kind = "Ok") =>
           LET answer == call_tool(last.returned)
           IN  /\ "status" \in DOMAIN answer
               /\ answer.status = "ok"
               /\ answer.data = BlankCommitResult.val
    /\ (Called({"move_file_changes"}) /\ MoveResult.kind = "Ok") =>
           LET answer == call_tool(last.returned)
           IN  /\ "status" \in DOMAIN answer
               /\ answer.status = "ok"
               /\ answer.data = MoveResult.val

\* The last call was of one of these tools and was answered with an ok envelope.
Succeeded(tools) ==
    /\ last.tool \in tools
    /\ last.returned.kind = "Ok"
    /\ "status" \in DOMAIN last.returned.val
    /\ last.returned.val.status = "ok"

\* The assignments that have exactly this path and this hunk header.
ExactAssignments(path, header) ==
    {k \in 1..Len(HunkAssignments) :
        /\ HunkAssignments[k].path_bytes = path
        /\ IsSome(HunkAssignments[k].hunk_header)
        /\ HunkAssignments[k].hunk_header.some = header}

\* C11: in the status get_project_status returns, a hunk has the stack id and
\* the dependency locks of an assignment with exactly its path and its header;
\* a hunk with no such assignment has no stack id and no locks.
C11_ExactHunkAssignment ==
    Succeeded({"get_project_status"}) =>
        \A c \in 1..Len(last.returned.val.data.file_changes) :
            LET file == last.returned.val.data.file_changes[c]
                patch == unified_diff(TreeChange(file.path)).some.patch
            IN  /\ Len(file.hunks) = Len(patch)
                /\ \A n \in 1..Len(patch) :
                       LET exact == ExactAssignments(file.path, patch[n].header)
                       IN  IF exact = {}
                           THEN /\ ~IsSome(file.hunks[n].assigned_to_stack)
                                /\ file.hunks[n].dependency_locks = <<>>
                           ELSE \E k \in exact :
                                   /\ file.hunks[n].assigned_to_stack =
                                          HunkAssignments[k].stack_id
                                   /\ file.hunks[n].dependency_locks =
                                          (IF IsSome(HunkAssignments[k].hunk_locks)
                                           THEN HunkAssignments[k].hunk_locks.some ELSE <<>>)

\* A status showed an assigned hunk and, on the same path, a hunk that has
\* only assignments of another path or another header.
C11_Witness ==
    /\ Succeeded({"get_project_status"})
    /\ \E c \in 1..Len(last.returned.val.data.file_changes) :
           LET file == last.returned.val.data.file_changes[c]
           IN  /\ \E n \in 1..Len(file.hunks) : IsSome(file.hunks[n].assigned_to_stack)
               /\ \E n \in 1..Len(file.hunks) :
                      /\ ~IsSome(file.hunks[n].assigned_to_stack)
                      /\ file.hunks[n].dependency_locks = <<>>

C13_WritersExcluded ==
    \A c \in Callers :
        Midway(c) =>
            /\ exclusive_worktree_access = c
            /\ \A w \in Callers \ {c} : ~Midway(w)

\* C14: no step of get_project_status or commit_details reads the workspace
\* while a mutating call is past its first step and has not returned.
C14_ReadsBehindWrites ==
    \A c \in Callers :
        (calls[c].tool \in {"get_project_status", "get_commit_details"}) =>
            calls[c].during = {}

\* C15: the changes a commit call hands to the engine are the pending changes
\* whose path is in files, each once, in the order of the pending changes; a
\* pending change on a path not in files is still pending after the call.
C15_SelectedChangesOnly ==
    Called({"commit"}) =>
        /\ \A k \in EventsAt({"create_commit_simple"}) :
               LET changes == last.events[k].changes
               IN  /\ PathsOf(changes) = Range(last.pre.worktree) \cap Range(Params.files)
                   /\ Len(changes) = Cardinality(PathsOf(changes))
                   /\ \A n \in 1..Len(changes) : changes[n] = DiffSpec(changes[n].path)
        /\ \A path \in Range(last.pre.worktree) \ Range(Params.files) :
               path \in Range(worktree)

\* A commit was made from a selection naming one of two pending changes and
\* a path with no pending change: the other change is still pending.
C15_Witness ==
    /\ Called({"commit"})
    /\ \E k \in EventsAt({"create_commit_simple"}) :
           /\ last.events[k].ok
           /\ last.events[k].changes # <<>>
    /\ Range(Params.files) \ Range(last.pre.worktree) # {}
    /\ Range(last.pre.worktree) \ Range(Params.files) # {}
    /\ Range(worktree) = Range(last.pre.worktree) \ Range(Params.files)

\* The ids of the stacks of a workspace.
StackIds(vb) == {vb[i].id : i \in 1..Len(vb)}

\* C16: a create_branch call asks for a new stack before anything else,
\* whether or not a branch of that name exists, and whatever it does after is
\* done to that new stack, never to one that was there; where the creation
\* fails the call is answered with an error, the stacks and their
\* descriptions are as they were and no notification is sent, whatever
\* notifier is attached.
C16_AlwaysCreates ==
    Called({"create_branch"}) =>
        /\ Len(last.events) >= 2
        /\ last.events[2].op = "create_virtual_branch"
        /\ last.events[2].name = Params.branch_name
        /\ \A k \in EventsAt({"update_branch", "emit_stack_update"}) :
               last.events[k].stack_id \notin StackIds(last.pre.vb)
        /\ ~last.events[2].ok =>
               /\ last.returned.kind = "Ok"
               /\ last.returned.val.status = "error"
               /\ Cur = last.pre
               /\ \A app_handle \in AppHandles :
                      LET done == create_branch(last.pre, app_handle, Params, last.x)
                      IN  \A k \in 1..Len(done.events) :
                              done.events[k].op \notin {"update_branch", "emit_stack_update"}

\* create_branch was called with the name of a branch of a stack of the
\* workspace: it asked for a new stack and answered with the error.
C16_Witness ==
    /\ Called({"create_branch"})
    /\ InWorkspaceWithHead(last.pre, Params.branch_name) # {}
    /\ EventsAt({"create_virtual_branch"}) # {}
    /\ last.returned.kind = "Ok"
    /\ last.returned.val.status = "error"

\* The positions in a sequence of events of the calls of these collaborators.
Positions(events, ops) == {k \in 1..Len(events) : events[k].op \in ops}

\* C17: in a commit call that reaches the engine, the description is updated,
\* then the snapshot is attempted, then the engine is called; where the
\* snapshot was taken its outcome is recorded next, whether the engine
\* succeeded or failed, with the engine's error exactly when it failed; where
\* the snapshot could not be taken nothing is recorded.
C17_CommitStepOrder ==
    Called({"commit"}) =>
        \A k \in EventsAt({"create_commit_simple"}) :
            /\ k >= 3
            /\ last.events[k - 2].op = "update_branch"
            /\ last.events[k - 2].ok
            /\ last.events[k - 1].op = "prepare_snapshot"
            /\ EventsAt({"update_branch"}) = {k - 2}
            /\ EventsAt({"prepare_snapshot"}) = {k - 1}
            /\ EventsAt({"create_commit_simple"}) = {k}
            /\ IF last.events[k - 1].ok
               THEN /\ EventsAt({"snapshot_commit_creation"}) = {k + 1}
                    /\ IsSome(last.events[k + 1].error) <=> ~last.events[k].ok
                    /\ IsSome(last.events[k + 1].error) =>
                           last.events[k + 1].error.some = "create_commit_simple"
               ELSE EventsAt({"snapshot_commit_creation"}) = {}

\* A commit whose engine failed had the failure recorded against its snapshot.
C17_Witness ==
    /\ Called({"commit"})
    /\ \E k \in EventsAt({"create_commit_simple"}) : ~last.events[k].ok
    /\ \E r \in EventsAt({"snapshot_commit_creation"}) : IsSome(last.events[r].error)

\* C17 as the specification words it: in every commit call that reaches the
\* engine, the outcome is recorded after the engine step.
C17_AlwaysRecorded ==
    Called({"commit"}) =>
        \A k \in EventsAt({"create_commit_simple"}) :
            \E r \in EventsAt({"snapshot_commit_creation"}) : r > k

\* C18: a commit call with a notifier attached that reaches the engine sends
\* one notification, for the stack the engine was called on, as its last
\* step (after the engine and after the recording of the snapshot outcome),
\* whether the engine succeeded or failed; the answer is the engine's error
\* where it failed.
C18_CommitNotifiesOnce ==
    Called({"commit"}) =>
        \A app_handle \in {h \in AppHandles : IsSome(h)} :
            LET done == Commit_call(last.pre, last.parameters, app_handle, last.x)
                sent == Positions(done.events, {"emit_stack_update"})
            IN  \A k \in Positions(done.events, {"create_commit_simple"}) :
                    /\ sent = {Len(done.events)}
                    /\ \A j \in Positions(done.events, {"create_commit_simple",
                                                  "snapshot_commit_creation"}) :
                           j < Len(done.events)
                    /\ done.events[Len(done.events)].stack_id = done.events[k].stack_id
                    /\ done.result.kind = "Ok"
                    /\ IF done.events[k].ok
                       THEN done.result.val.status = "ok"
                       ELSE /\ done.result.val.status = "error"
                            /\ done.result.val.error = "create_commit_simple"

\* A commit whose engine failed notified the attached notifier and was
\* answered with the engine's error.
C18_Witness ==
    /\ Called({"commit"})
    /\ IsSome(last.app_handle)
    /\ \E k \in EventsAt({"create_commit_simple"}) : ~last.events[k].ok
    /\ \E k \in EventsAt({"snapshot_commit_creation"}) :
           last.events[k + 1].op = "emit_stack_update"
    /\ last.returned.val.status = "error"

\* C19: an amend call with a notifier attached that reaches the engine (the
\* repository opens, the pending changes are read, stack_id and commit_id
\* parse) sends one notification, for the stack of stack_id, after the engine
\* step and before it returns, whether the engine succeeded or failed; an
\* amend call that does not reach the engine sends none.
C19_AmendNotifies ==
    Called({"amend"}) =>
        \A app_handle \in {h \in AppHandles : IsSome(h)} :
            LET done == Amend_call(last.pre, last.parameters, app_handle, last.x)
                engine == Positions(done.events, {"create_commit_and_update_refs_with_project"})
                sent == Positions(done.events, {"emit_stack_update"})
            IN  IF engine = {}
                THEN sent = {}
                ELSE /\ sent = {Len(done.events)}
                     /\ \A k \in engine : k < Len(done.events)
                     /\ done.events[Len(done.events)].stack_id =
                            StackId_from_str(Params.stack_id).val

\* An amend that the engine refused notified the attached notifier.
C19_Witness ==
    /\ Called({"amend"})
    /\ IsSome(last.app_handle)
    /\ \E k \in EventsAt({"create_commit_and_update_refs_with_project"}) :
           /\ ~last.events[k].ok
           /\ last.events[k + 1].op = "emit_stack_update"
    /\ last.returned.val.status = "error"

\* C19 as the specification words it: every amend call with a notifier
\* attached whose stack_id resolves sends one notification, whatever the
\* outcome.
C19_NotifiesWheneverStackResolves ==
    (/\ Called({"amend"})
     /\ last.x.fail \notin {"gix_repo", "worktree_changes"}
     /\ StackId_from_str(Params.stack_id).kind = "Ok"
     /\ HasStack(last.pre.vb, StackId_from_str(Params.stack_id).val)) =>
        \A app_handle \in {h \in AppHandles : IsSome(h)} :
            LET done == Amend_call(last.pre, last.parameters, app_handle, last.x)
            IN  Cardinality(Positions(done.events, {"emit_stack_update"})) = 1

\* C20: a move_file_changes call that returns success recomputed the
\* workspace commit once, directly after the move between commits succeeded,
\* before every notification and before it returned.
C20_RecomputedBeforeReturn ==
    Called({"move_file_changes"}) =>
        \A app_handle \in AppHandles :
            LET done == move_file_changes(last.pre, app_handle, Params, last.x)
                moved == Positions(done.events, {"move_changes_between_commits"})
                recomputed == Positions(done.events, {"update_workspace_commit"})
                sent == Positions(done.events, {"emit_stack_update"})
            IN  done.result.kind = "Ok" =>
                    /\ moved = {1}
                    /\ done.events[1].ok
                    /\ recomputed = {2}
                    /\ done.events[2].ok
                    /\ \A k \in sent : k > 2
                    /\ IsSome(app_handle) => Cardinality(sent) = 2

\* A move answered "Success" that notified both stacks after recomputing the
\* workspace commit.
C20_Witness ==
    /\ Called({"move_file_changes"})
    /\ last.returned = Ok(JsonString("Success"))
    /\ IsSome(last.app_handle)
    /\ Len(last.events) = 4
    /\ last.events[2].op = "update_workspace_commit"
    /\ last.events[3].op = "emit_stack_update"
    /\ last.events[4].op = "emit_stack_update"

\* C21: with a notifier attached, a move_file_changes call whose move between
\* commits succeeded sends two notifications, the first for the source stack
\* and the second for the destination stack, also when both are one stack.
C21_BothStacksNotified ==
    Called({"move_file_changes"}) =>
        \A app_handle \in {h \in AppHandles : IsSome(h)} :
            LET done == move_file_changes(last.pre, app_handle, Params, last.x)
                sent == Positions(done.events, {"emit_stack_update"})
            IN  \A k \in Positions(done.events, {"move_changes_between_commits"}) :
                    done.events[k].ok =>
                        /\ Cardinality(sent) = 2
                        /\ \A j \in sent : j > k
                        /\ \E i, j \in sent :
                               /\ i < j
                               /\ done.events[i].stack_id = done.events[k].source_stack_id
                               /\ done.events[j].stack_id =
                                      done.events[k].destination_stack_id

\* The result of the status call that succeeded.
StatusView == last.returned.val.data

\* The (stack, branch) pairs a workspace has to show, in stack and branch
\* order: the branches, not archived and with a commit, of the stacks in the
\* workspace.
BranchesToShow(S) ==
    Flatten([i \in 1..Len(S.vb) |->
        IF S.vb[i].in_workspace
        THEN LET heads == SelectSeq(S.vb[i].heads,
                                    LAMBDA b : ~b.archived /\ b.commits # <<>>)
             IN  [h \in 1..Len(heads) |-> <<S.vb[i].id, heads[h]>>]
        ELSE <<>>])

\* The (stack, branch) pairs of a stack view, in its order.
BranchesShown(view) ==
    Flatten([i \in 1..Len(view) |->
        [h \in 1..Len(view[i].branches) |-> <<view[i].id, view[i].branches[h]>>]])

\* C22: the stack view of get_project_status has no stack without branches,
\* and its branches are, in stack and branch order, the branches of the stacks
\* in the workspace that are not archived and have a commit, each with its
\* name, its description and its commits; so no archived branch and no branch
\* without commits is in it.
C22_StackView ==
    Succeeded({"get_project_status"}) =>
        LET shown == BranchesShown(StatusView.stacks)
            wanted == BranchesToShow(last.pre)
        IN  /\ \A i \in 1..Len(StatusView.stacks) : StatusView.stacks[i].branches # <<>>
            /\ \A i, j \in 1..Len(StatusView.stacks) :
                   i # j => StatusView.stacks[i].id # StatusView.stacks[j].id
            /\ Len(shown) = Len(wanted)
            /\ \A k \in 1..Len(shown) :
                   /\ shown[k][1] = wanted[k][1]
                   /\ shown[k][2].name = wanted[k][2].name
                   /\ shown[k][2].description = wanted[k][2].description
                   /\ Len(shown[k][2].commits) = Len(wanted[k][2].commits)
                   /\ \A c \in 1..Len(shown[k][2].commits) :
                          shown[k][2].commits[c].id = wanted[k][2].commits[c]
                   /\ ~wanted[k][2].archived
                   /\ wanted[k][2].commits # <<>>

\* A status of a workspace with an archived branch that has a commit, a
\* branch without commits, and a stack whose only branch is archived: the
\* view shows one stack with one branch.
C22_Witness ==
    /\ Succeeded({"get_project_status"})
    /\ \A i \in 1..Len(last.pre.vb) : last.pre.vb[i].in_workspace
    /\ \E i \in 1..Len(last.pre.vb) :
           /\ \E h \in 1..Len(last.pre.vb[i].heads) :
                  last.pre.vb[i].heads[h].archived /\ last.pre.vb[i].heads[h].commits # <<>>
           /\ \E h \in 1..Len(last.pre.vb[i].heads) :
                  ~last.pre.vb[i].heads[h].archived /\ last.pre.vb[i].heads[h].commits # <<>>
    /\ \E i \in 1..Len(last.pre.vb) :
           \A h \in 1..Len(last.pre.vb[i].heads) :
               last.pre.vb[i].heads[h].archived /\ last.pre.vb[i].heads[h].commits # <<>>
    /\ Len(StatusView.stacks) = 1
    /\ Len(StatusView.stacks[1].branches) = 1

\* The paths of the changes a reading call looks at: the pending changes the
\* filter lets through, or the changes of the commit asked for.
PathsRead ==
    IF last.tool = "get_project_status"
    THEN {p \in Range(last.pre.worktree) :
             IsSome(Params.filter_changes) => Contains(Params.filter_changes.some, p)}
    ELSE last.pre.commits[ObjectId_from_str(Params.commit_id).val].files

\* The file changes a reading call returned.
FileChangesReturned ==
    IF last.tool = "get_project_status" THEN last.returned.val.data.file_changes
    ELSE last.returned.val.data

\* The diff engine gives this path a regular patch.
IsPatch(path) ==
    /\ IsSome(unified_diff(TreeChange(path)))
    /\ "patch" \in DOMAIN unified_diff(TreeChange(path)).some

\* A reading call none of whose collaborators returned an error, on a commit
\* that exists.
ReadWithoutError ==
    /\ Called({"get_project_status", "get_commit_details"})
    /\ last.x.fail = "none"
    /\ last.tool = "get_commit_details" =>
           /\ ObjectId_from_str(Params.commit_id).kind = "Ok"
           /\ ObjectId_from_str(Params.commit_id).val \in DOMAIN last.pre.commits

\* C23: get_project_status and get_commit_details return a FileChange for
\* exactly the changes the diff engine gives a regular patch for; a binary
\* change, a change too large, and a change the engine gives no diff for (a
\* submodule) are left out and do not make the call fail.
C23_OnlyPatchesShown ==
    ReadWithoutError =>
        /\ last.returned.kind = "Ok"
        /\ last.returned.val.status = "ok"
        /\ {FileChangesReturned[k].path : k \in 1..Len(FileChangesReturned)} =
               {p \in PathsRead : IsPatch(p)}

\* C24: every call of a tool ends with a value or an error returned to the
\* caller, never with the call aborted; so does a commit call whose creation
\* of the stack failed.
C24_EveryCallReturns ==
    last.tool # "none" =>
        /\ last.returned.kind \in {"Ok", "Err"}
        /\ (\E k \in EventsAt({"create_virtual_branch"}) : ~last.events[k].ok) =>
               \/ last.returned.kind = "Err"
               \/ last.returned.val.status = "error"

\* C25: every hunk get_commit_details returns has no stack assigned and no
\* dependency locks, also where the assignment table has an assignment with
\* the path and the header of the hunk.
C25_DetailsUnassigned ==
    Succeeded({"get_commit_details"}) =>
        \A c \in 1..Len(last.returned.val.data) :
            \A n \in 1..Len(last.returned.val.data[c].hunks) :
                /\ ~IsSome(last.returned.val.data[c].hunks[n].assigned_to_stack)
                /\ last.returned.val.data[c].hunks[n].dependency_locks = <<>>

\* The details of a commit showed a hunk that the assignment table assigns
\* to a stack, with locks.
C25_Witness ==
    /\ Succeeded({"get_commit_details"})
    /\ \E c \in 1..Len(last.returned.val.data) :
           LET file == last.returned.val.data[c]
               patch == unified_diff(TreeChange(file.path)).some.patch
           IN  \E n \in 1..Len(file.hunks) :
                   /\ file.hunks[n].diff = patch[n].diff
                   /\ \E k \in ExactAssignments(file.path, patch[n].header) :
                          /\ IsSome(HunkAssignments[k].stack_id)
                          /\ IsSome(HunkAssignments[k].hunk_locks)

\* The calls of the engines that rewrite commits.
Engines ==
    {"create_commit_and_update_refs_with_project", "insert_blank_commit",
     "move_changes_between_commits", "update_workspace_commit"}

\* A stack id or a commit id among the parameters of the call does not parse.
SomeIdUnparsed ==
    \/ /\ Called({"amend"})
       /\ \/ StackId_from_str(Params.stack_id).kind = "Err"
          \/ ObjectId_from_str(Params.commit_id).kind = "Err"
    \/ /\ Called({"create_blank_commit"})
       /\ \/ StackId_from_str(Params.stack_id).kind = "Err"
          \/ ObjectId_from_str(Params.parent_id).kind = "Err"
    \/ /\ Called({"move_file_changes"})
       /\ \/ StackId_from_str(Params.source_stack_id).kind = "Err"
          \/ ObjectId_from_str(Params.source_commit_id).kind = "Err"
          \/ StackId_from_str(Params.destination_stack_id).kind = "Err"
          \/ ObjectId_from_str(Params.destination_commit_id).kind = "Err"

\* C26: an amend, create_blank_commit or move_file_changes call with a stack
\* id or a commit id that does not parse calls no engine, returns an error,
\* and leaves the workspace (commits, stacks, descriptions) as it was.
C26_UnparsedIdsRejected ==
    SomeIdUnparsed =>
        /\ EventsAt(Engines) = {}
        /\ last.returned.kind = "Ok"
        /\ last.returned.val.status = "error"
        /\ Cur = last.pre

\* One of the three tools was called with a commit id that does not parse
\* beside a stack id that does, and answered with an error.
C26_Witness ==
    /\ SomeIdUnparsed
    /\ last.returned.val.status = "error"
    /\ \/ Called({"amend"}) /\ StackId_from_str(Params.stack_id).kind = "Ok"
       \/ Called({"create_blank_commit"}) /\ StackId_from_str(Params.stack_id).kind = "Ok"
       \/ /\ Called({"move_file_changes"})
          /\ StackId_from_str(Params.source_stack_id).kind = "Ok"
          /\ ObjectId_from_str(Params.source_commit_id).kind = "Ok"

\* The commits a stack view shows.
CommitsShown(view) ==
    UNION {UNION {Range(view[i].branches[h].commits) : h \in 1..Len(view[i].branches)} :
               i \in 1..Len(view)}

\* A text begins with a line break: a line feed, or a carriage return and a
\* line feed.
StartsWithBreak(s) == StartsWith(s, <<NL>>) \/ StartsWith(s, <<CR, NL>>)

\* A text made of line breaks only.
OnlyBreaks(s) ==
    \A i \in 1..Len(s) :
        \/ s[i] = NL
        \/ s[i] = CR /\ i < Len(s) /\ s[i + 1] = NL

HasCRLF(s) == \E i \in 1..(Len(s) - 1) : s[i] = CR /\ s[i + 1] = NL

\* The title is the text before the first line break of the message.
TitleOf(message, title) ==
    /\ ~Contains(title, NL)
    /\ StartsWith(message, title)
    /\ \/ Len(title) = Len(message)
       \/ StartsWithBreak(SubSeq(message, Len(title) + 1, Len(message)))

\* The body is what follows the first line of the message (its lines, joined
\* with line feeds) without the line breaks it begins with.
BodyOf(message, body) ==
    LET lines == Lines(message)
        rest == JoinLines(IF lines = <<>> THEN <<>> ELSE Tail(lines))
    IN  /\ ~StartsWithBreak(body)
        /\ \E n \in 0..Len(rest) :
               /\ OnlyBreaks(SubSeq(rest, 1, n))
               /\ body = SubSeq(rest, n + 1, Len(rest))

\* C27: for every commit the status view shows, message_title is the text
\* before the first line break of the message and has no line break in it,
\* message_body is the remainder without its leading blank lines and does not
\* begin with a line break; a message the tools composed as title, blank
\* line, body splits back into that (trimmed) title and body where the title
\* is one line and the body has no carriage return before a line feed.
C27_TitleAndBody ==
    Succeeded({"get_project_status"}) =>
        \A c \in CommitsShown(StatusView.stacks) :
            LET message == last.pre.commits[c.id].message
            IN  /\ TitleOf(message, c.message_title)
                /\ BodyOf(message, c.message_body)
                /\ \A title \in ViewTitles, body \in ViewBodies :
                       (/\ message = ComposeMessage(title, body)
                        /\ ~Contains(Trim(title), NL)
                        /\ ~HasCRLF(Trim(body))) =>
                           /\ c.message_title = Trim(title)
                           /\ c.message_body = Trim(body)

\* The status showed a commit whose message was composed of a title with
\* blanks around it and a body of two paragraphs, split back into them.
C27_Witness ==
    /\ Succeeded({"get_project_status"})
    /\ \E c \in CommitsShown(StatusView.stacks) :
           /\ last.pre.commits[c.id].message =
                  ComposeMessage(<<SP, "T", NL>>, <<"B", NL, NL, "C">>)
           /\ c.message_title = <<"T">>
           /\ c.message_body = <<"B", NL, NL, "C">>

\* C27 as the specification words it: every message composed of a title, a
\* blank line and a body splits back into that title and that body.
C27_ComposedSplitsBack ==
    Succeeded({"get_project_status"}) =>
        \A c \in CommitsShown(StatusView.stacks) :
            \A title \in ViewTitles, body \in ViewBodies :
                last.pre.commits[c.id].message = ComposeMessage(title, body) =>
                    /\ c.message_title = Trim(title)
                    /\ c.message_body = Trim(body)

\* The workspace has a stack it did not have before the call, with a branch
\* of this name.
NewStackWith(name) ==
    \E i \in 1..Len(vb_state) :
        /\ vb_state[i].id \notin StackIds(last.pre.vb)
        /\ HasHead(vb_state[i], name)

\* C28: a commit call that created a stack and then failed in the description
\* update or in the engine returns an error and leaves the new stack in the
\* workspace, with the description where the update went through; the
\* snapshot of the call is taken after the creation of the stack.
C28_NoRollback ==
    Called({"commit"}) =>
        \A k \in EventsAt({"create_virtual_branch"}) :
            (/\ last.events[k].ok
             /\ \E j \in EventsAt({"update_branch", "create_commit_simple"}) :
                    ~last.events[j].ok) =>
                /\ last.returned.kind = "Ok"
                /\ last.returned.val.status = "error"
                /\ NewStackWith(Params.branch_name)
                /\ DescriptionUpdated =>
                       Described(vb_state, Params.branch_name, Params.branch_description)
                /\ \A s \in EventsAt({"prepare_snapshot"}) : s > k

\* A commit created a stack, described its branch, took the snapshot, and was
\* refused by the engine: the stack and the description are there.
C28_Witness ==
    /\ Called({"commit"})
    /\ \E k \in EventsAt({"create_virtual_branch"}) : last.events[k].ok
    /\ \E k \in EventsAt({"prepare_snapshot"}) : last.events[k].ok
    /\ \E k \in EventsAt({"create_commit_simple"}) : ~last.events[k].ok
    /\ last.returned.val.status = "error"
    /\ NewStackWith(Params.branch_name)
    /\ Described(vb_state, Params.branch_name, Params.branch_description)

\* The steps of create_commit from the taking of the guard to its drop.
UnderGuard ==
    {"worktree_changes", "stacks", "create_virtual_branch", "update_branch",
     "create_commit_simple", "drop"}

\* The stacks of the workspace that have a branch of this name.
StacksWith(name) == {i \in 1..Len(vb_state) : HasHead(vb_state[i], name)}

\* C29: of commit calls running concurrently, each holds the exclusive guard
\* from before its lookup of the stacks until after the creation of the
\* stack and the steps that follow; so for a branch name no stack had, at
\* most one stack is created, no call fails in creating a second one, and the
\* calls that come later use the stack the first created.
C29_OneStackPerName ==
    /\ \A c \in Callers :
           (calls[c].tool = "commit" /\ calls[c].pc \in UnderGuard) =>
               exclusive_worktree_access = c
    /\ \A name \in BranchNames : Cardinality(StacksWith(name)) <= 1
    /\ \A c \in Callers :
           (calls[c].tool = "commit" /\ calls[c].params.branch_name = "c") =>
               /\ calls[c].result.kind # "Panic"
               /\ calls[c].stack_id # 0 =>
                      \E i \in StacksWith("c") : vb_state[i].id = calls[c].stack_id
    /\ \A c, w \in Callers :
           (/\ calls[c].tool = "commit" /\ calls[w].tool = "commit"
            /\ calls[c].params.branch_name = calls[w].params.branch_name
            /\ calls[c].stack_id # 0 /\ calls[w].stack_id # 0) =>
               calls[c].stack_id = calls[w].stack_id

\* Two concurrent commit calls on the new branch name have both returned, on
\* the one stack that was created for it.
C29_Witness ==
    /\ \A c \in Callers :
           /\ calls[c].tool = "commit"
           /\ calls[c].params.branch_name = "c"
           /\ calls[c].pc = "returned"
           /\ calls[c].result.kind = "Ok"
           /\ calls[c].stack_id = next_stack_id - 1
    /\ Cardinality(StacksWith("c")) = 1
    /\ Len(vb_state) = 3

\* The notifications in a sequence of events that are for this stack.
SentFor(events, stack_id) ==
    {k \in Positions(events, {"emit_stack_update"}) : events[k].stack_id = stack_id}

\* The stacks a sequence of events has notifications for.
StacksNotified(events) ==
    {events[k].stack_id : k \in Positions(events, {"emit_stack_update"})}

\* The function of the tool called, with this notifier attached.
Redone(app_handle) ==
    CASE last.tool = "commit" -> create_commit(last.pre, app_handle, Params, last.x)
      [] last.tool = "create_branch" -> create_branch(last.pre, app_handle, Params, last.x)
      [] last.tool = "create_blank_commit" ->
             create_blank_commit(last.pre, app_handle, Params, last.x)
      [] last.tool = "move_file_changes" ->
             move_file_changes(last.pre, app_handle, Params, last.x)

\* C30: with a notifier attached, a create_blank_commit or move_file_changes
\* call that returns an error, a create_branch call whose creation or
\* description update failed, and a commit call that did not reach the
\* engine send no notification; commit, create_branch and create_blank_commit
\* send at most one notification, and move_file_changes at most two: one for
\* its source stack and one for its destination stack, which are two for one
\* stack where it moves within a stack.
C30_NoNotificationOnEarlyFailure ==
    Called({"commit", "create_branch", "create_blank_commit", "move_file_changes"}) =>
        \A app_handle \in {h \in AppHandles : IsSome(h)} :
            LET done == Redone(app_handle)
                sent == Positions(done.events, {"emit_stack_update"})
            IN  /\ (/\ last.tool \in {"create_blank_commit", "move_file_changes"}
                    /\ done.result.kind = "Err") => sent = {}
                /\ (/\ last.tool = "create_branch"
                    /\ done.result.kind # "Ok") => sent = {}
                /\ (/\ last.tool = "commit"
                    /\ Positions(done.events, {"create_commit_simple"}) = {}) => sent = {}
                /\ last.tool # "move_file_changes" => Cardinality(sent) <= 1
                /\ last.tool = "move_file_changes" =>
                       /\ Cardinality(sent) \in {0, 2}
                       /\ sent # {} =>
                              /\ done.events[Len(done.events) - 1].stack_id =
                                     StackId_from_str(Params.source_stack_id).val
                              /\ done.events[Len(done.events)].stack_id =
                                     StackId_from_str(Params.destination_stack_id).val
                              /\ sent = {Len(done.events) - 1, Len(done.events)}

\* A create_blank_commit call the engine refused: it returned the error, and
\* with a notifier attached it would have sent nothing.
C30_Witness ==
    /\ Called({"create_blank_commit"})
    /\ \E k \in EventsAt({"insert_blank_commit"}) : ~last.events[k].ok
    /\ last.returned.val.status = "error"
    /\ Positions(Redone(Some("delivers")).events, {"emit_stack_update"}) = {}

\* C30 as the specification words it: no notification from a call that fails
\* before its notification step, and at most one notification for each stack.
C30_OnePerStack ==
    Called({"commit", "create_branch", "create_blank_commit", "move_file_changes"}) =>
        \A app_handle \in {h \in AppHandles : IsSome(h)} :
            LET done == Redone(app_handle)
            IN  /\ done.result.kind = "Err" /\ last.tool # "commit" =>
                       Positions(done.events, {"emit_stack_update"}) = {}
                /\ \A stack_id \in StacksNotified(done.events) :
                       Cardinality(SentFor(done.events, stack_id)) <= 1

\* The move between commits of the call went through and the recomputation
\* of the workspace commit after it failed.
MovedNotRecomputed ==
    /\ Called({"move_file_changes"})
    /\ \E k \in EventsAt({"move_changes_between_commits"}) : last.events[k].ok
    /\ \E k \in EventsAt({"update_workspace_commit"}) : ~last.events[k].ok

\* What the move between commits of the call made of the workspace.
AfterMove ==
    move_changes_between_commits(
        last.pre, StackId_from_str(Params.source_stack_id).val,
        ObjectId_from_str(Params.source_commit_id).val,
        StackId_from_str(Params.destination_stack_id).val,
        ObjectId_from_str(Params.destination_commit_id).val,
        [k \in 1..Len(Params.files) |-> DiffSpec(Params.files[k])], TRUE)

\* C31: a move_file_changes call whose move between commits went through and
\* whose recomputation of the workspace commit failed returns an error
\* envelope, without the remap list; the workspace is the one the move left,
\* in which the source and the destination commit have new ids; and with a
\* notifier attached no stack is notified.
C31_MovedButFailed ==
    MovedNotRecomputed =>
        /\ last.returned =
               Ok(error_to_json("update_workspace_commit", "move_file_changes"))
        /\ DOMAIN last.returned.val = {"status", "actionIdentifier", "error"}
        /\ Cur = AfterMove.state
        /\ Cur # last.pre
        /\ \A i \in 1..Len(vb_state) :
               /\ ~Contains(Chain(vb_state[i]), ObjectId_from_str(Params.source_commit_id).val)
               /\ ~Contains(Chain(vb_state[i]),
                            ObjectId_from_str(Params.destination_commit_id).val)
        /\ AfterMove.result.val.replaced_commits # <<>>
        /\ \A app_handle \in AppHandles :
               Positions(move_file_changes(last.pre, app_handle, Params, last.x).events,
                         {"emit_stack_update"}) = {}

\* A move took file e from commit 1 to commit 2, the recomputation failed,
\* and the call returned the error with commit 2 holding the file under a
\* new id.
C31_Witness ==
    /\ MovedNotRecomputed
    /\ last.returned.val.status = "error"
    /\ "e" \in last.pre.commits[ObjectId_from_str(Params.source_commit_id).val].files
    /\ \E o \in DOMAIN commits :
           /\ o \notin DOMAIN last.pre.commits
           /\ "e" \in commits[o].files

====
